---- MODULE Spec2Model ----
(***************************************************************************)
(* The synchronization engine of the audio client, src/frontend/script.js, *)
(* and the connection layer of the three clients (script.js, host.js and   *)
(* the listener client).                                                   *)
(*                                                                         *)
(* Number representation (JavaScript doubles are modelled in fixed point): *)
(*   - the local clock and server epochs are integer milliseconds;         *)
(*   - positions, the clock offset and the drift are integer microseconds  *)
(*     (the offset t0 + rtt/2 - now can be a half millisecond);            *)
(*   - rates are integers in units of 1e-5 (1.0 is 100000);                *)
(*   - the integral term is in units of 1e-6 s*s;                          *)
(*   - the volume is in percent (1.0 is 100);                              *)
(*   - NaN and undefined are two reserved integers, handled by every       *)
(*     arithmetic operator the way JavaScript handles them.                *)
(* Products the fixed point cannot hold exactly are truncated toward zero. *)
(***************************************************************************)
EXTENDS Integers, Sequences, FiniteSets, TLC

VARIABLES
    now,              \* Date.now() of the participant, ms
    hostUI,           \* window.location.pathname === "/host"
    state,            \* the mirrored RoomState (or Undefined)
    lastStateReason,
    myClientId,
    clockOffsetMs,    \* microseconds, or NaN
    lastPingRTT,      \* ms, NaN, or Null (before the first ping)
    clockCalibrated,
    driftInt,
    basePlaybackRate,
    lastAppliedRate,
    buffering,
    userSeeking,
    audio,            \* the <audio> element: src, currentTime, playbackRate, volume, paused
    nSteps,           \* events handled so far (bounded by MaxSteps)
    ev,               \* the event handled last: kind and tag (branch, reason or validity)
    calls,            \* the media-control calls the last handler issued, in order
    lastMsgState,     \* the state field of the init/state message received last
    offRate,          \* since the snapshot applied last, the element has played for a
                      \* while at a rate other than lastAppliedRate
    page,             \* which client runs: "audio" (script.js), "host" (host.js), "listener"
    ws,               \* script.js: the current transport (index into sockets), 0 for null
    reconnectAttempts,
    sockets,          \* every WebSocket created so far: readyState, endpoint, whether it opened
    timers,           \* the pending setTimeout callbacks that connect again
    clientState,      \* host.js hostState / listener clientState: the connection fields
    PRIMARY_WS_URL,   \* window.APP_CONFIG.wsEndpoint, "" when missing
    sent,             \* the messages the last handler handed to the transport, in order
    ui,               \* the page: the wantHost checkbox, the value of the seek slider,
                      \* and whether the animation-frame loop is still scheduled
    driftShown        \* what the last handler wrote into the drift label (driftMsEl),
                      \* Null when it wrote nothing

\* the connection layer
netVars == <<page, ws, reconnectAttempts, sockets, timers, clientState, PRIMARY_WS_URL>>

\* the synchronization engine of script.js (all but the clock and the event record)
engineVars == <<hostUI, state, lastStateReason, myClientId, clockOffsetMs, lastPingRTT,
                clockCalibrated, driftInt, basePlaybackRate, lastAppliedRate, buffering,
                userSeeking, audio, nSteps, lastMsgState, offRate, ui>>

vars == <<now, hostUI, state, lastStateReason, myClientId, clockOffsetMs, lastPingRTT,
          clockCalibrated, driftInt, basePlaybackRate, lastAppliedRate, buffering,
          userSeeking, audio, nSteps, ev, calls, lastMsgState, offRate, netVars,
          sent, ui, driftShown>>

----------------------------------------------------------------------------
\* Bounds of the model

MaxNow == 3001
MaxSteps == 5
MaxSockets == 7     \* transports created in a run of the connection specifications
MaxPlayerSockets == 2   \* transports created in a run of the embedded-player clients
MaxSessions == 2    \* transports created in a run of the session specification
MaxPlayTicks == 3   \* tick periods of play time in a run of the seek scenario
MaxUiSteps == 3     \* events handled in a run of the controls specification

----------------------------------------------------------------------------
\* JavaScript values

NaN == -2000000001
Undef == -2000000002
Null == -2000000003
Undefined == [undefined |-> TRUE]

RATE_ONE == 100000
RATE_LO == 50000
RATE_HI == 200000
RATE_WRITE_EPS == 100

IsNum(x) == x \notin {NaN, Undef, Null}

\* typeof x === "number" (NaN is a number, undefined and null are not)
TypeofNumber(x) == x \notin {Undef, Null}

Abs(x) == IF x < 0 THEN -x ELSE x

\* a / b truncated toward zero
Quot(a, b) == IF a >= 0 THEN a \div b ELSE -((-a) \div b)

\* Math.abs
MathAbs(x) == IF IsNum(x) THEN Abs(x) ELSE NaN

\* Math.max, Math.min: NaN if either argument is NaN
MathMax(a, b) == IF IsNum(a) /\ IsNum(b) THEN (IF a >= b THEN a ELSE b) ELSE NaN
MathMin(a, b) == IF IsNum(a) /\ IsNum(b) THEN (IF a <= b THEN a ELSE b) ELSE NaN

\* a - b, a + b on numbers (undefined converts to NaN)
Sub(a, b) == IF IsNum(a) /\ IsNum(b) THEN a - b ELSE NaN
Add(a, b) == IF IsNum(a) /\ IsNum(b) THEN a + b ELSE NaN

\* a > b, a <= b: false when either side is NaN
Gt(a, b) == IsNum(a) /\ IsNum(b) /\ a > b
Le(a, b) == IsNum(a) /\ IsNum(b) /\ a <= b

----------------------------------------------------------------------------
\* CTRL, the tuning constants

TICK_MS == 200
DEAD_BAND_MS == 25
HARD_SEEK_LIMIT_MS == 1500
KP_DIV == 100
KI_DIV == 500
MAX_RATE_NUDGE == 1500
MAX_RATE_SLEW == 400

\* the initial value of the variable state
InitialState ==
    [track_url |-> "", paused |-> TRUE, position_sec |-> 0, start_epoch_ms |-> 0,
     playback_rate |-> RATE_ONE, volume |-> 100]

----------------------------------------------------------------------------
\* Inputs

\* RoomState records the server sends
Snapshots ==
    { [track_url |-> "", paused |-> TRUE, position_sec |-> 0, start_epoch_ms |-> 0,
       playback_rate |-> RATE_ONE, volume |-> 100],
      [track_url |-> "a", paused |-> FALSE, position_sec |-> 0, start_epoch_ms |-> 0,
       playback_rate |-> RATE_ONE, volume |-> 100],
      [track_url |-> "a", paused |-> TRUE, position_sec |-> 42000000, start_epoch_ms |-> 0,
       playback_rate |-> RATE_ONE, volume |-> 50],
      [track_url |-> "a", paused |-> FALSE, position_sec |-> 0, start_epoch_ms |-> 0,
       playback_rate |-> 300000, volume |-> 100]
       }

Reasons == {"play", "pause", "seek", "set_track", "set_volume", "host_transfer", "periodic"}

\* the reasons the listener specification draws from
SomeReasons == {"seek", "periodic"}

\* whether the browser lets audio.play() start playback, where tryPlay calls it
PlayOutcomes(s) ==
    IF s = Undefined THEN {TRUE}
    ELSE IF s.paused \/ s.track_url = "" THEN {TRUE} ELSE BOOLEAN

\* the state field of an init/state message: a RoomState, or missing
MsgStates == Snapshots \cup {Undefined}

\* positions the seek slider or the playing element can report, microseconds
Positions == {1500000, 2975000, 4501000}

\* server send time of a ping, as ms before the local clock reading (or missing)
PingAges == {0, 61}

----------------------------------------------------------------------------
\* The <audio> element

\* the value the src getter returns after src has been set to url
ResolveSrc(url) == IF url = "/r" THEN "http://h/r" ELSE url

Call(op, arg) == [op |-> op, arg |-> arg]

SeekCalls(cs) == {i \in 1..Len(cs) : cs[i].op = "seekTo"}
RateCalls(cs) == {i \in 1..Len(cs) : cs[i].op = "setRate"}

----------------------------------------------------------------------------
\* Pure functions of script.js

clamp(x, lo, hi) == MathMin(hi, MathMax(lo, x))

\* the element of a one-element set: Only({e(v) : v \in {d}}) is e with v standing for
\* the value of d, computed once
Only(S) == CHOOSE x \in S : TRUE

\* (a variant that ignores the paused flag)
desiredPositionSec_ignoresPause(st, off, t) ==
    MathMax(0, Sub(Add(t * 1000, off), st.start_epoch_ms * 1000))

\* the desired playback head for RoomState st, clock offset off and local clock t
desiredPositionSec(st, off, t) ==
    LET serverNow == Add(t * 1000, off)
        elapsed == MathMax(0, Sub(serverNow, IF IsNum(st.start_epoch_ms)
                                             THEN st.start_epoch_ms * 1000 ELSE NaN))
    IN  IF st.paused THEN st.position_sec ELSE elapsed

\* Math.max(0, desiredPositionSec()), as both the aligner and the control loop use it
desired == MathMax(0, desiredPositionSec(state, clockOffsetMs, now))

\* (a variant that merges the snapshot into the mirror, keeping the old volume)
applyState_merging(s) ==
    LET base == IF TypeofNumber(s.playback_rate) THEN s.playback_rate ELSE RATE_ONE
    IN  [state |-> IF state = Undefined THEN s ELSE [s EXCEPT !.volume = state.volume],
         basePlaybackRate |-> base,
         driftInt |-> IF IsNum(driftInt) THEN Quot(driftInt, 2) ELSE NaN,
         lastAppliedRate |-> base]

\* (a variant that clears the integral term)
applyState_clearing(s) ==
    LET base == IF TypeofNumber(s.playback_rate) THEN s.playback_rate ELSE RATE_ONE
    IN  [state |-> s, basePlaybackRate |-> base, driftInt |-> 0, lastAppliedRate |-> base]

\* applyState(s), for a RoomState s: the new mirrored state and control-loop state
applyState(s) ==
    LET base == IF TypeofNumber(s.playback_rate) THEN s.playback_rate ELSE RATE_ONE
    IN  [state |-> s,
         basePlaybackRate |-> base,
         driftInt |-> IF IsNum(driftInt) THEN Quot(driftInt, 2) ELSE NaN,
         lastAppliedRate |-> base]

\* ensureAudioSource(url) on the element a, with the calls cs issued so far
ensureAudioSource(p, url) ==
    IF p.audio.src # url
    THEN [audio |-> [p.audio EXCEPT !.src = ResolveSrc(url), !.currentTime = 0],
          calls |-> Append(p.calls, Call("loadSource", 0))]
    ELSE p

applyVolume(p, v) ==
    LET vol == IF TypeofNumber(v) THEN MathMax(0, MathMin(100, v)) ELSE 100
    IN  [audio |-> [p.audio EXCEPT !.volume = vol],
         calls |-> Append(p.calls, Call("setVolume", vol))]

\* (a variant with an inclusive limit)
hardSeekNeeded_inclusive(driftMs) ==
    IsNum(driftMs) /\ Abs(driftMs) >= HARD_SEEK_LIMIT_MS * 1000

\* (a variant with the limit at 150 ms)
hardSeekNeeded_at150(driftMs) == Gt(MathAbs(driftMs), 150 * 1000)

\* the test of the control loop for a hard seek, on the drift in microseconds
hardSeekNeeded(driftMs) == Gt(MathAbs(driftMs), HARD_SEEK_LIMIT_MS * 1000)

\* the dead-band test of the control loop
inDeadBand(driftMs) == Le(MathAbs(driftMs), DEAD_BAND_MS * 1000)

\* the test of performJumpAlign for snapping to the desired position
alignNeeded(reason, driftMs) ==
    LET bigJump == Gt(MathAbs(driftMs), DEAD_BAND_MS * 1000)
    IN  /\ \/ reason \in {"seek", "set_track", "play", "init"}
           \/ Gt(MathAbs(driftMs), HARD_SEEK_LIMIT_MS * 1000)
        /\ bigJump

\* (a variant that forgets the reason seek)
alignsOnce_withoutSeek(reason) == reason \in {"set_track", "play"}

\* (a variant that forgets the reason play)
alignsOnce_withoutPlay(reason) == reason \in {"seek", "set_track"}

\* the reasons for which a state message aligns once
alignsOnce(reason) == reason \in {"seek", "set_track", "play"}

\* performJumpAlign(reason), with the mirrored state already replaced by st
performJumpAlign(p, reason, st) ==
    IF p.audio.src = "" THEN p
    ELSE LET want == MathMax(0, desiredPositionSec(st, clockOffsetMs, now))
             driftMs == Sub(want, p.audio.currentTime)
         IN  IF alignNeeded(reason, driftMs)
             THEN [audio |-> [p.audio EXCEPT !.currentTime = want],
                   calls |-> Append(p.calls, Call("seekTo", want))]
             ELSE p

\* (a variant that calls audio.play() only when the browser would allow it)
tryPlay_onlyWhenAllowed(p, st, ok) ==
    IF p.audio.src = "" \/ st.paused \/ ~ok THEN p
    ELSE [audio |-> [p.audio EXCEPT !.paused = FALSE],
          calls |-> Append(p.calls, Call("play", 0))]

\* tryPlay(); ok says whether the browser lets audio.play() start playback
tryPlay(p, st, ok) ==
    IF p.audio.src = "" \/ st.paused THEN p
    ELSE [audio |-> [p.audio EXCEPT !.paused = IF ok THEN FALSE ELSE @],
          calls |-> Append(p.calls, Call("play", 0))]

\* setPlaybackRate(target) from applied rate last: the new applied rate and element
setPlaybackRate(p, last, target) ==
    Only({ LET smoothed == IF IsNum(t) /\ IsNum(last)
                           THEN last + Quot((t - last) * 3, 10) ELSE NaN
           IN  Only({ IF write
                      THEN [audio |-> [p.audio EXCEPT !.playbackRate = smoothed],
                            calls |-> Append(p.calls, Call("setRate", smoothed)),
                            lastAppliedRate |-> smoothed]
                      ELSE [audio |-> p.audio, calls |-> p.calls,
                            lastAppliedRate |-> smoothed] :
                      write \in {Gt(MathAbs(Sub(smoothed, p.audio.playbackRate)),
                                    RATE_WRITE_EPS)} }) :
           t \in {clamp(target, RATE_LO, RATE_HI)} })

targetRateTowards(p, last, target) ==
    Only({ setPlaybackRate(p, last, Add(last, step)) :
           step \in {clamp(Sub(target, last), -MAX_RATE_SLEW, MAX_RATE_SLEW)} })

\* the leaky integral of the PI controller: driftInt * 0.98 + drift * (TICK_MS / 1000)
piIntegral(int, drift) ==
    IF IsNum(int) /\ IsNum(drift)
    THEN Quot(int * 98, 100) + Quot(drift * TICK_MS, 1000)
    ELSE NaN

\* clamp(KP * drift + KI * driftInt, -MAX_RATE_NUDGE, MAX_RATE_NUDGE), on the new integral
piOffset(int, drift) ==
    LET raw == IF IsNum(int) /\ IsNum(drift)
               THEN Quot(drift, KP_DIV) + Quot(int, KI_DIV) ELSE NaN
    IN  clamp(raw, -MAX_RATE_NUDGE, MAX_RATE_NUDGE)

\* basePlaybackRate * (1 + offset)
piTarget(base, offset) ==
    IF IsNum(offset) THEN base + Quot(base * offset, RATE_ONE) ELSE NaN

----------------------------------------------------------------------------
\* The control loop body (the setInterval callback), on the current state:
\* the branch taken and the new control-loop state and element

\* (a variant that forgets the buffering flag)
relaxNeeded_ignoresBuffering == audio.src = "" \/ state.paused \/ ~clockCalibrated

\* the first test of the control loop: nothing to correct against
\* (with no source the test never reads state)
relaxNeeded == audio.src = "" \/ state.paused \/ buffering \/ ~clockCalibrated

\* the PI branch, on the drift and the new integral
piBranch(drift, int) ==
    Only({ LET r == targetRateTowards([audio |-> audio, calls |-> <<>>],
                                      lastAppliedRate, target)
           IN  [tag |-> "pi", audio |-> r.audio, calls |-> r.calls,
                driftInt |-> int, lastAppliedRate |-> r.lastAppliedRate] :
           target \in {piTarget(basePlaybackRate, piOffset(int, drift))} })

\* the branches that read the drift
correctDrift(drift) ==
    IF hardSeekNeeded(drift)
    THEN LET p1 == [audio |-> [audio EXCEPT !.currentTime = desired],
                    calls |-> <<Call("seekTo", desired)>>]
             r == setPlaybackRate(p1, lastAppliedRate, basePlaybackRate)
         IN  [tag |-> "hard", audio |-> r.audio, calls |-> r.calls,
              driftInt |-> 0, lastAppliedRate |-> r.lastAppliedRate]
    ELSE IF inDeadBand(drift)
    THEN LET r == targetRateTowards([audio |-> audio, calls |-> <<>>],
                                    lastAppliedRate, basePlaybackRate)
         IN  [tag |-> "dead", audio |-> r.audio, calls |-> r.calls,
              driftInt |-> IF IsNum(driftInt) THEN Quot(driftInt * 9, 10) ELSE NaN,
              lastAppliedRate |-> r.lastAppliedRate]
    ELSE Only({ piBranch(drift, int) : int \in {piIntegral(driftInt, drift)} })

controlLoop ==
    LET p0 == [audio |-> audio, calls |-> <<>>]
        keep == [tag |-> "throw", audio |-> audio, calls |-> <<>>,
                 driftInt |-> driftInt, lastAppliedRate |-> lastAppliedRate]
    IN
    IF audio.src # "" /\ state = Undefined
    THEN keep   \* state.paused raises a TypeError: the callback ends here
    ELSE IF relaxNeeded
    THEN LET r == setPlaybackRate(p0, lastAppliedRate, basePlaybackRate)
         IN  [tag |-> "relax", audio |-> r.audio, calls |-> r.calls,
              driftInt |-> driftInt, lastAppliedRate |-> r.lastAppliedRate]
    ELSE Only({ correctDrift(d) : d \in {Sub(desired, audio.currentTime)} })

----------------------------------------------------------------------------
\* Outbound messages. A message is a record of its type, its action (control
\* messages), a number (t0, position, volume, base rate, want_host as 0/1; Undef
\* when the field is absent) and a string (track url, display name).

Msg(type, action, num, str) == [type |-> type, action |-> action, num |-> num, str |-> str]

displayName == "User-1"

\* {type: "hello", want_host, name} (name is "" where the code sends none)
Hello(wantHost, name) == Msg("hello", "", IF wantHost THEN 1 ELSE 0, name)

\* (a variant that answers with the local clock)
Pong_localClock(t0) == Msg("pong", "", now, "")

\* {type: "pong", t0}
Pong(t0) == Msg("pong", "", t0, "")

\* {type: "control", action, ...}
Control(action, num, str) == Msg("control", action, num, str)

\* (a variant that sends whatever the state of the transport)
sendJSON_unguarded(socks, w, msg) == <<msg>>

\* sendJSON(obj) with the transport table socks and the reference w (0 for null)
sendJSON(socks, w, msg) ==
    IF w # 0 /\ socks[w].readyState = "open" THEN <<msg>> ELSE <<>>

\* the page as the markup loads it
InitialUi == [wantHost |-> FALSE, seekRange |-> 0, frames |-> TRUE]

----------------------------------------------------------------------------
\* The connection layer: the browser's sockets and timeouts

\* a WebSocket just constructed; fallback says which endpoint it was given
NewSocket(fallback) == [readyState |-> "connecting", fallback |-> fallback, opened |-> FALSE]

Live(i) == sockets[i].readyState \in {"connecting", "open"}

\* a message event can be dispatched to the handler of script.js
Receiving == page = "audio" /\ \E i \in DOMAIN sockets : sockets[i].readyState = "open"

Max(a, b) == IF a >= b THEN a ELSE b

\* ---- script.js ----

shouldReconnect == TRUE

RECONNECT_FLOOR_MS == 500
RECONNECT_CAP_MS == 5000

\* (a variant without the cap)
reconnectDelayMs_uncapped(attempts) == RECONNECT_FLOOR_MS * 2 ^ attempts

\* the delay ws.onclose computes from the attempt counter
reconnectDelayMs(attempts) ==
    IF RECONNECT_FLOOR_MS * 2 ^ attempts < RECONNECT_CAP_MS
    THEN RECONNECT_FLOOR_MS * 2 ^ attempts ELSE RECONNECT_CAP_MS

\* (a variant that keeps the counter when the transport opens)
attemptsOnOpen_kept(attempts) == attempts

\* the attempt counter after ws.onopen
attemptsOnOpen(attempts) == 0

\* ws.onopen (the hello it sends is outbound only)
WsOpen(i) ==
    /\ page = "audio"
    /\ i \in DOMAIN sockets
    /\ sockets[i].readyState = "connecting"
    /\ sockets' = [sockets EXCEPT ![i].readyState = "open", ![i].opened = TRUE]
    /\ reconnectAttempts' = attemptsOnOpen(reconnectAttempts)
    /\ ev' = [kind |-> "open", tag |-> ""]
    /\ calls' = <<>>
    /\ sent' = sendJSON(sockets', ws, Hello(ui.wantHost, displayName))
    /\ driftShown' = Null
    /\ UNCHANGED <<now, engineVars, page, ws, timers, clientState, PRIMARY_WS_URL>>

\* ws.onerror: nothing; the close event follows
WsError(i) ==
    /\ page = "audio"
    /\ i \in DOMAIN sockets
    /\ Live(i)
    /\ ev.kind # "error"
    /\ ev' = [kind |-> "error", tag |-> ""]
    /\ calls' = <<>>
    /\ sent' = <<>>
    /\ driftShown' = Null
    /\ UNCHANGED <<now, engineVars, netVars>>

\* ws.onclose, of a transport that was connecting (failed connect) or open
WsClose(i) ==
    /\ page = "audio"
    /\ i \in DOMAIN sockets
    /\ Live(i)
    /\ sockets' = [sockets EXCEPT ![i].readyState = "closed"]
    /\ ws' = 0
    /\ IF shouldReconnect
       THEN /\ reconnectAttempts' = reconnectAttempts + 1
            /\ timers' = timers \cup {[id |-> i, fallback |-> FALSE,
                                       due |-> now + reconnectDelayMs(reconnectAttempts)]}
       ELSE UNCHANGED <<reconnectAttempts, timers>>
    /\ ev' = [kind |-> "close", tag |-> ""]
    /\ calls' = <<>>
    /\ sent' = <<>>
    /\ driftShown' = Null
    /\ UNCHANGED <<now, engineVars, page, clientState, PRIMARY_WS_URL>>

\* the timeout set by ws.onclose fires: connectWS(); limit bounds the run
ReconnectTimer(t, limit) ==
    /\ page = "audio"
    /\ t \in timers
    /\ Len(sockets) < limit
    /\ timers' = timers \ {t}
    /\ now' = Max(now, t.due)
    /\ sockets' = Append(sockets, NewSocket(FALSE))
    /\ ws' = Len(sockets) + 1
    /\ ev' = [kind |-> "timer", tag |-> ""]
    /\ calls' = <<>>
    /\ sent' = <<>>
    /\ driftShown' = Null
    /\ UNCHANGED <<engineVars, page, reconnectAttempts, clientState, PRIMARY_WS_URL>>

\* ---- host.js and the listener client (the same connectWebSocket) ----

FALLBACK_WS_URL == "ws://h/ws"

\* the values of window.APP_CONFIG.wsEndpoint: missing, the fallback endpoint itself,
\* another endpoint, and a string new WebSocket() rejects with an exception
Endpoints == {"", "ws://h/ws", "ws://p/ws", "ws:// bad"}

ConstructorThrows(url) == url = "ws:// bad"

RECONNECT_DELAY_START == 2000
RECONNECT_DELAY_CAP == 8000
FALLBACK_RETRY_MS == 500

\* video ids: null, the DEFAULT_VIDEO_ID constant, and the ids hosts load
NULL_VIDEO_ID == 0
DEFAULT_VIDEO_ID == 9

\* null where a state object is expected (pendingState, remoteState, targetState)
NullState == [null |-> TRUE]

\* the YT.Player object: not created before ensurePlayer() ran; position in ms
NoPlayer == [created |-> FALSE, video |-> NULL_VIDEO_ID, time |-> 0, playing |-> FALSE,
             volume |-> 100]

\* the value of the volume slider in the page as served
SLIDER_START == 100

\* hostState of host.js and clientState of the listener client. remoteState is
\* targetState in the listener client. The handles of the periodic timers are TRUE
\* when set; intervals counts the timers setInterval started and clearInterval has
\* not stopped.
InitialClientState ==
    [socket |-> 0, usingFallback |-> FALSE, reconnectDelay |-> RECONNECT_DELAY_START,
     latencyInterval |-> FALSE, lastSyncAt |-> 0,
     player |-> NoPlayer, playerReady |-> FALSE, currentVideoId |-> NULL_VIDEO_ID,
     pendingState |-> NullState, remoteState |-> NullState,
     userAdjustedVolume |-> FALSE, volumeSlider |-> SLIDER_START,
     metricsInterval |-> FALSE, progressInterval |-> FALSE,
     intervals |-> [ping |-> 0, metrics |-> 0, progress |-> 0]]

\* the open listener of host.js starts the latency ping unless its handle is set
latencyPingOnOpen(c) ==
    IF ~c.latencyInterval
    THEN [c EXCEPT !.latencyInterval = TRUE, !.intervals.ping = @ + 1]
    ELSE c

\* the close listener of host.js stops the timer the handle refers to
latencyPingOnClose(c) ==
    IF c.latencyInterval
    THEN [c EXCEPT !.latencyInterval = FALSE, !.intervals.ping = @ - 1]
    ELSE c

\* connectWebSocket(forceFallback) called at local time t by the timer (or start) id
connectWebSocket(c, forceFallback, t, id) ==
    LET url == IF forceFallback THEN FALLBACK_WS_URL ELSE PRIMARY_WS_URL
    IN  IF url = ""
        THEN c
        ELSE IF ConstructorThrows(url)
        THEN IF ~forceFallback
             THEN [c EXCEPT !.timers = @ \cup {[id |-> id, fallback |-> TRUE,
                                                 due |-> t + FALLBACK_RETRY_MS]}]
             ELSE c
        ELSE [c EXCEPT !.sockets = Append(@, NewSocket(forceFallback)),
                       !.clientState.socket = Len(c.sockets) + 1,
                       !.clientState.usingFallback = forceFallback]

\* the "open" listener
OnSocketOpen(i) ==
    /\ page \in {"host", "listener"}
    /\ i \in DOMAIN sockets
    /\ sockets[i].readyState = "connecting"
    /\ sockets' = [sockets EXCEPT ![i].readyState = "open", ![i].opened = TRUE]
    /\ LET c == [clientState EXCEPT !.reconnectDelay = RECONNECT_DELAY_START]
       IN  clientState' = IF page = "host" THEN latencyPingOnOpen(c) ELSE c
    /\ ev' = [kind |-> "open", tag |-> ""]
    /\ calls' = <<>>
    /\ sent' = <<>>
    /\ driftShown' = Null
    /\ UNCHANGED <<now, engineVars, page, ws, reconnectAttempts, timers, PRIMARY_WS_URL>>

\* the "error" listener: a toast only
OnSocketError(i) ==
    /\ page \in {"host", "listener"}
    /\ i \in DOMAIN sockets
    /\ Live(i)
    /\ ev.kind # "error"
    /\ ev' = [kind |-> "error", tag |-> ""]
    /\ calls' = <<>>
    /\ sent' = <<>>
    /\ driftShown' = Null
    /\ UNCHANGED <<now, engineVars, netVars>>

\* (a variant that retries on both endpoints)
timersOnClose_bothEndpoints(i, useFallback, nextDelay) ==
    {[id |-> i, fallback |-> TRUE, due |-> now + FALLBACK_RETRY_MS],
     [id |-> i, fallback |-> useFallback, due |-> now + nextDelay]}

\* the timeout the close listener sets: the fallback endpoint after 500 ms when the
\* primary one was in use, the same endpoint after the reconnect delay otherwise
timersOnClose(i, useFallback, nextDelay) ==
    LET toFallback == ~useFallback /\ PRIMARY_WS_URL # "" /\ PRIMARY_WS_URL # FALLBACK_WS_URL
    IN  {IF toFallback
         THEN [id |-> i, fallback |-> TRUE, due |-> now + FALLBACK_RETRY_MS]
         ELSE [id |-> i, fallback |-> useFallback, due |-> now + nextDelay]}

\* the "close" listener of the socket created by connectWebSocket(useFallback)
OnSocketClose(i) ==
    /\ page \in {"host", "listener"}
    /\ i \in DOMAIN sockets
    /\ Live(i)
    /\ LET useFallback == sockets[i].fallback
           n == (clientState.reconnectDelay * 3) \div 2
           nextDelay == IF n < RECONNECT_DELAY_CAP THEN n ELSE RECONNECT_DELAY_CAP
       IN  /\ sockets' = [sockets EXCEPT ![i].readyState = "closed"]
           /\ LET c == [clientState EXCEPT !.reconnectDelay = nextDelay]
               IN  clientState' = IF page = "host" THEN latencyPingOnClose(c) ELSE c
           /\ timers' = timers \cup timersOnClose(i, useFallback, nextDelay)
    /\ ev' = [kind |-> "close", tag |-> ""]
    /\ calls' = <<>>
    /\ sent' = <<>>
    /\ driftShown' = Null
    /\ UNCHANGED <<now, engineVars, page, ws, reconnectAttempts, PRIMARY_WS_URL>>

\* a timeout set by the close listener or the catch clause fires
ConnectTimer(t, limit) ==
    /\ page \in {"host", "listener"}
    /\ t \in timers
    /\ Len(sockets) < limit
    /\ LET t1 == Max(now, t.due)
           c == connectWebSocket([clientState |-> clientState, sockets |-> sockets,
                                  timers |-> timers \ {t}], t.fallback, t1,
                                 Len(sockets) + 1)
       IN  /\ now' = t1
           /\ clientState' = c.clientState
           /\ sockets' = c.sockets
           /\ timers' = c.timers
    /\ ev' = [kind |-> "timer", tag |-> ""]
    /\ calls' = <<>>
    /\ sent' = <<>>
    /\ driftShown' = Null
    /\ UNCHANGED <<engineVars, page, ws, reconnectAttempts, PRIMARY_WS_URL>>

\* pushState(partial) of host.js at local time t: the connection fields and the
\* messages handed to the socket (partial names the field the caller overrides)
pushState(c, socks, partial, t) ==
    IF c.socket = 0 THEN [clientState |-> c, sent |-> <<>>]
    ELSE IF socks[c.socket].readyState # "open" THEN [clientState |-> c, sent |-> <<>>]
    ELSE [clientState |-> [c EXCEPT !.lastSyncAt = t],
          sent |-> <<Msg("update_state", partial, Undef, "")>>]

\* a control or the progress timer of the host page calls pushState(partial)
PushState(partial) ==
    /\ page = "host"
    /\ LET r == pushState(clientState, sockets, partial, now)
       IN  /\ clientState' = r.clientState
           /\ sent' = r.sent
    /\ driftShown' = Null
    /\ ev' = [kind |-> "push", tag |-> partial]
    /\ calls' = <<>>
    /\ UNCHANGED <<now, engineVars, page, ws, reconnectAttempts, sockets, timers,
                   PRIMARY_WS_URL>>

\* ---- the embedded player of host.js and of the listener client ----

\* the state objects the server sends to the embedded-player clients (positions in ms)
VideoSnapshots ==
    [video_id : {1, 2}, position : {30000}, is_playing : BOOLEAN, host_volume : {40}]

\* the ids a host can type into the video input: none, one the room may already
\* play, and a new one
TypedVideoIds == {NULL_VIDEO_ID, 2, 3}

\* loadVideoById and cueVideoById take the video id and the start position
PlayerCall(op, arg, at) == [op |-> op, arg |-> arg, startSeconds |-> at]

\* the player after a call; ok says whether the browser lets playback start
playerAfter(p, call, ok) ==
    CASE call.op = "loadVideoById" ->
             [p EXCEPT !.video = call.arg, !.time = call.startSeconds, !.playing = ok]
      [] call.op = "cueVideoById" ->
             [p EXCEPT !.video = call.arg, !.time = call.startSeconds, !.playing = FALSE]
      [] call.op = "seekTo" -> [p EXCEPT !.time = call.arg]
      [] call.op = "playVideo" -> [p EXCEPT !.playing = ok]
      [] call.op = "pauseVideo" -> [p EXCEPT !.playing = FALSE]
      [] call.op = "setVolume" -> [p EXCEPT !.volume = call.arg]
      [] OTHER -> p

\* a handler in progress: r.c is hostState (clientState), r.calls the calls made so far
invoke(r, call, ok) ==
    [c |-> [r.c EXCEPT !.player = playerAfter(@, call, ok)], calls |-> Append(r.calls, call)]

\* ensurePlayer(): creates the player once, on the video of the state known so far
ensurePlayer(c) ==
    IF c.player.created
    THEN c
    ELSE [c EXCEPT !.player =
              [NoPlayer EXCEPT !.created = TRUE,
                               !.video = IF c.remoteState # NullState
                                         THEN IF c.remoteState.video_id # NULL_VIDEO_ID
                                              THEN c.remoteState.video_id
                                              ELSE DEFAULT_VIDEO_ID
                                         ELSE DEFAULT_VIDEO_ID]]

\* cueVideo(videoId, position, shouldPlay) of host.js
cueVideo(r, videoId, position, shouldPlay, ok) ==
    IF ~r.c.playerReady
    THEN [r EXCEPT !.c.pendingState =
                       [video_id |-> videoId, position |-> position,
                        is_playing |-> shouldPlay, host_volume |-> r.c.volumeSlider]]
    ELSE IF shouldPlay
    THEN invoke(r, PlayerCall("loadVideoById", videoId, position), ok)
    ELSE invoke(r, PlayerCall("cueVideoById", videoId, position), ok)

\* applyRemoteState: the part that runs once the player is ready. The player state is
\* read once, after the seek.
applyToHostPlayer(r, st, ok) ==
    LET targetId == IF st.video_id # NULL_VIDEO_ID THEN st.video_id ELSE DEFAULT_VIDEO_ID
        moved == IF targetId # r.c.currentVideoId
                 THEN cueVideo([r EXCEPT !.c.currentVideoId = targetId], targetId,
                               st.position, st.is_playing, ok)
                 ELSE LET a == IF Abs(r.c.player.time - st.position) > 450
                               THEN invoke(r, Call("seekTo", st.position), ok)
                               ELSE r
                      IN  IF st.is_playing /\ ~a.c.player.playing
                          THEN invoke(a, Call("playVideo", 0), ok)
                          ELSE IF ~st.is_playing /\ a.c.player.playing
                          THEN invoke(a, Call("pauseVideo", 0), ok)
                          ELSE a
    IN  IF IsNum(st.host_volume)
        THEN LET volumeValue == clamp(st.host_volume, 0, 100)
             IN  invoke(invoke([moved EXCEPT !.c.volumeSlider = volumeValue],
                               Call("setVolume", volumeValue), ok),
                        Call("unMute", 0), ok)
        ELSE moved

\* applyRemoteState(state) of host.js
applyRemoteState(r, st, ok) ==
    IF st = NullState
    THEN r
    ELSE IF ~r.c.playerReady
    THEN [r EXCEPT !.c.remoteState = st, !.c.pendingState = st]
    ELSE applyToHostPlayer([r EXCEPT !.c.remoteState = st], st, ok)

\* the onReady callback of the player of host.js
hostOnReady(r, ok) ==
    LET r1 == invoke(invoke([r EXCEPT !.c.playerReady = TRUE],
                            Call("setVolume", r.c.volumeSlider), ok),
                     Call("unMute", 0), ok)
        r2 == [r1 EXCEPT !.c.progressInterval = TRUE, !.c.intervals.progress = @ + 1]
    IN  IF r2.c.pendingState # NullState
        THEN applyRemoteState([r2 EXCEPT !.c.pendingState = NullState],
                              r2.c.pendingState, ok)
        ELSE r2

\* loadVideo() of host.js with the id extracted from the input (the two pushState
\* timeouts it sets run as PushState)
loadVideo(r, videoId, ok) ==
    IF videoId = NULL_VIDEO_ID
    THEN r
    ELSE cueVideo([r EXCEPT !.c.currentVideoId = videoId], videoId, 0, FALSE, ok)

\* (a variant of scheduleIntervals without the checks of the handles)
scheduleIntervals_unguarded(c) ==
    [c EXCEPT !.metricsInterval = TRUE, !.intervals.metrics = @ + 1,
              !.progressInterval = TRUE, !.intervals.progress = @ + 1]

\* scheduleIntervals() of the listener client
scheduleIntervals(c) ==
    LET c1 == IF ~c.metricsInterval
              THEN [c EXCEPT !.metricsInterval = TRUE, !.intervals.metrics = @ + 1]
              ELSE c
    IN  IF ~c1.progressInterval
        THEN [c1 EXCEPT !.progressInterval = TRUE, !.intervals.progress = @ + 1]
        ELSE c1

\* setPlayerVolume(value) of the listener client
setPlayerVolume(r, value, ok) ==
    IF r.c.player.created THEN invoke(r, Call("setVolume", value), ok) ELSE r

\* attemptPlayback() of the listener client (the prompt for a gesture is display only)
attemptPlayback(r, ok) ==
    IF ~r.c.playerReady
    THEN r
    ELSE invoke(invoke(r, Call("unMute", 0), ok), Call("playVideo", 0), ok)

\* syncPlayer(payload) of the listener client
syncPlayer(r, payload, ok) ==
    IF ~r.c.player.created
    THEN r
    ELSE LET targetId == payload.video_id
             moved == IF targetId # NULL_VIDEO_ID /\ targetId # r.c.currentVideoId
                      THEN invoke([r EXCEPT !.c.currentVideoId = targetId],
                                  PlayerCall(IF payload.is_playing THEN "loadVideoById"
                                             ELSE "cueVideoById",
                                             targetId, payload.position), ok)
                      ELSE LET a == IF Abs(r.c.player.time - payload.position) > 600
                                    THEN invoke(r, Call("seekTo", payload.position), ok)
                                    ELSE r
                           IN  IF payload.is_playing /\ ~a.c.player.playing
                               THEN attemptPlayback(a, ok)
                               ELSE IF ~payload.is_playing /\ a.c.player.playing
                               THEN invoke(a, Call("pauseVideo", 0), ok)
                               ELSE a
         IN  IF IsNum(payload.host_volume) /\ ~moved.c.userAdjustedVolume
             THEN setPlayerVolume(moved, clamp(payload.host_volume, 0, 100), ok)
             ELSE moved

\* applySyncState(payload) of the listener client
applySyncState(r, payload, ok) ==
    IF payload = NullState
    THEN r
    ELSE LET r1 == [r EXCEPT !.c.remoteState = payload]
             r2 == IF ~r1.c.userAdjustedVolume /\ IsNum(payload.host_volume)
                   THEN LET volumeValue == clamp(payload.host_volume, 0, 100)
                            r3 == [r1 EXCEPT !.c.volumeSlider = volumeValue]
                        IN  IF r3.c.playerReady
                            THEN setPlayerVolume(r3, volumeValue, ok)
                            ELSE r3
                   ELSE r1
         IN  IF ~r2.c.playerReady
             THEN [r2 EXCEPT !.c.pendingState = payload]
             ELSE syncPlayer(r2, payload, ok)

\* the onReady callback of the player of the listener client
listenerOnReady(r, ok) ==
    LET r1 == setPlayerVolume([r EXCEPT !.c.playerReady = TRUE], r.c.volumeSlider, ok)
        r2 == IF r1.c.pendingState # NullState
              THEN [syncPlayer(r1, r1.c.pendingState, ok) EXCEPT
                        !.c.pendingState = NullState]
              ELSE r1
    IN  [r2 EXCEPT !.c = scheduleIntervals(r2.c)]

\* what a handler of these clients leaves alone, but for the connection fields, the
\* calls and the snapshot received last
playerFrame == <<now, hostUI, state, lastStateReason, myClientId, clockOffsetMs,
                 lastPingRTT, clockCalibrated, driftInt, basePlaybackRate,
                 lastAppliedRate, buffering, userSeeking, audio, nSteps, offRate, ui,
                 page, ws, reconnectAttempts, sockets, timers, PRIMARY_WS_URL>>

\* a handler of host.js or of the listener client has run to its end
Handled(kind, r, out) ==
    /\ clientState' = r.c
    /\ calls' = r.calls
    /\ sent' = out
    /\ ev' = [kind |-> kind, tag |-> ""]
    /\ driftShown' = Null
    /\ UNCHANGED playerFrame

Handling == [c |-> clientState, calls |-> <<>>]

\* a message event is dispatched on an open transport
MessageArrives == \E i \in DOMAIN sockets : sockets[i].readyState = "open"

\* host.js: the hello message, with the state of the room or without one
HostHello(st, ok) ==
    /\ page = "host"
    /\ MessageArrives
    /\ Handled("hello", applyRemoteState(Handling, st, ok), <<>>)
    /\ lastMsgState' = IF st # NullState THEN st ELSE lastMsgState

\* host.js: a sync_state message
HostSyncState(st, ok) ==
    /\ page = "host"
    /\ MessageArrives
    /\ Handled("sync_state", applyRemoteState(Handling, st, ok), <<>>)
    /\ lastMsgState' = st

\* the listener client: the hello message
ListenerHello ==
    /\ page = "listener"
    /\ MessageArrives
    /\ Handled("hello", [Handling EXCEPT !.c = scheduleIntervals(@)], <<>>)
    /\ UNCHANGED lastMsgState

\* the listener client: a sync_state message
ListenerSyncState(st, ok) ==
    /\ page = "listener"
    /\ MessageArrives
    /\ Handled("sync_state", applySyncState(Handling, st, ok), <<>>)
    /\ lastMsgState' = st

\* window.onYouTubeIframeAPIReady, called once when the player API has loaded
ApiReady ==
    /\ page \in {"host", "listener"}
    /\ ~clientState.player.created
    /\ Handled("api", [Handling EXCEPT !.c = ensurePlayer(@)], <<>>)
    /\ UNCHANGED lastMsgState

\* the player calls onReady, once
PlayerReady(ok) ==
    /\ page \in {"host", "listener"}
    /\ clientState.player.created
    /\ ~clientState.playerReady
    /\ Handled("ready", IF page = "host" THEN hostOnReady(Handling, ok)
                        ELSE listenerOnReady(Handling, ok), <<>>)
    /\ UNCHANGED lastMsgState

\* host.js: a click on the load button with videoId in the input
LoadVideoClick(videoId, ok) ==
    /\ page = "host"
    /\ Handled("load", loadVideo(Handling, videoId, ok), <<>>)
    /\ UNCHANGED lastMsgState

\* host.js: a click on the play button
PlayClick(ok) ==
    /\ page = "host"
    /\ IF ~clientState.playerReady
       THEN Handled("play", Handling, <<>>)
       ELSE LET r == invoke(invoke(Handling, Call("unMute", 0), ok),
                            Call("playVideo", 0), ok)
                pushed == pushState(r.c, sockets, "is_playing", now)
            IN  Handled("play", [r EXCEPT !.c = pushed.clientState], pushed.sent)
    /\ UNCHANGED lastMsgState

\* the listener client: input on the volume slider
ListenerVolumeInput(v) ==
    /\ page = "listener"
    /\ LET r == [Handling EXCEPT !.c.userAdjustedVolume = TRUE, !.c.volumeSlider = v]
       IN  Handled("volume", IF r.c.playerReady THEN setPlayerVolume(r, v, TRUE) ELSE r,
                   <<>>)
    /\ UNCHANGED lastMsgState

----------------------------------------------------------------------------
\* Initial state: the module-level declarations of script.js

\* every event counts against the bound on the length of a run
Step == nSteps < MaxSteps /\ nSteps' = nSteps + 1

\* the module-level declarations of the engine
EngineStart ==
    /\ now = 3000
    /\ state = InitialState
    /\ lastStateReason = "null"
    /\ myClientId = "null"
    /\ clockOffsetMs = 0
    /\ lastPingRTT = Null
    /\ clockCalibrated = FALSE
    /\ driftInt = 0
    /\ basePlaybackRate = RATE_ONE
    /\ lastAppliedRate = RATE_ONE
    /\ buffering = FALSE
    /\ userSeeking = FALSE
    /\ audio = [src |-> "", currentTime |-> 0, playbackRate |-> RATE_ONE,
                volume |-> 100, paused |-> TRUE]
    /\ nSteps = 0
    /\ ev = [kind |-> "start", tag |-> ""]
    /\ calls = <<>>
    /\ lastMsgState = InitialState
    /\ offRate = FALSE
    /\ sent = <<>>
    /\ driftShown = Null
    /\ ui = InitialUi

\* script.js has run to its end: connectWS() has created the first transport
AudioPageStart ==
    /\ page = "audio"
    /\ ws = 1
    /\ reconnectAttempts = 0
    /\ sockets = <<NewSocket(FALSE)>>
    /\ timers = {}
    /\ clientState = InitialClientState
    /\ PRIMARY_WS_URL = ""

Init ==
    /\ hostUI = FALSE
    /\ EngineStart
    /\ AudioPageStart

----------------------------------------------------------------------------
\* Inbound messages (ws.onmessage, handleMessage)

\* {type: "init", client_id: cid, state: s}
HandleInit(s, cid, ok) ==
    /\ Step
    /\ Receiving
    /\ UNCHANGED <<netVars, ui>>
    /\ sent' = <<>>
    /\ driftShown' = Null
    /\ offRate' = FALSE
    /\ myClientId' = IF cid # "" THEN cid ELSE myClientId
    /\ lastMsgState' = s
    /\ IF s = Undefined
       THEN \* applyState assigns state, then reading s.playback_rate raises; onmessage catches
            /\ state' = s
            /\ calls' = <<>>
            /\ ev' = [kind |-> "init", tag |-> "throw"]
            /\ UNCHANGED <<basePlaybackRate, driftInt, lastAppliedRate, audio>>
       ELSE LET n == applyState(s)
                p1 == ensureAudioSource([audio |-> audio, calls |-> <<>>], s.track_url)
                p2 == applyVolume(p1, s.volume)
                p3 == performJumpAlign(p2, "init", s)
                p4 == tryPlay(p3, s, ok)
            IN  /\ state' = n.state
                /\ basePlaybackRate' = n.basePlaybackRate
                /\ driftInt' = n.driftInt
                /\ lastAppliedRate' = n.lastAppliedRate
                /\ audio' = p4.audio
                /\ calls' = p4.calls
                /\ ev' = [kind |-> "init", tag |-> "init"]
    /\ UNCHANGED <<now, hostUI, lastStateReason, clockOffsetMs, lastPingRTT,
                   clockCalibrated, buffering, userSeeking>>

\* {type: "state", reason: reason, state: s}
StateMessage(s, reason, ok) ==
    /\ Receiving
    /\ UNCHANGED <<netVars, ui>>
    /\ sent' = <<>>
    /\ driftShown' = Null
    /\ offRate' = FALSE
    /\ lastStateReason' = reason
    /\ lastMsgState' = s
    /\ IF s = Undefined
       THEN /\ state' = s
            /\ calls' = <<>>
            /\ ev' = [kind |-> "state", tag |-> "throw"]
            /\ UNCHANGED <<basePlaybackRate, driftInt, lastAppliedRate, audio>>
       ELSE LET n == applyState(s)
                p1 == ensureAudioSource([audio |-> audio, calls |-> <<>>], s.track_url)
                p2 == applyVolume(p1, s.volume)
                p3 == IF alignsOnce(reason)
                      THEN performJumpAlign(p2, reason, s)
                      ELSE p2
                p4 == tryPlay(p3, s, ok)
            IN  /\ state' = n.state
                /\ basePlaybackRate' = n.basePlaybackRate
                /\ driftInt' = n.driftInt
                /\ lastAppliedRate' = n.lastAppliedRate
                /\ audio' = p4.audio
                /\ calls' = p4.calls
                /\ ev' = [kind |-> "state", tag |-> reason]
    /\ UNCHANGED <<now, hostUI, myClientId, clockOffsetMs, lastPingRTT,
                   clockCalibrated, buffering, userSeeking>>

HandleState(s, reason, ok) == Step /\ StateMessage(s, reason, ok)

\* (a variant that adds the whole round trip)
estimateOffset_wholeRtt(t0, rtt, t) ==
    IF IsNum(t0) THEN t0 * 1000 + rtt * 1000 - t * 1000 ELSE NaN

\* msg.t0 + rtt / 2 - now, in microseconds
estimateOffset(t0, rtt, t) ==
    IF IsNum(t0) THEN t0 * 1000 + rtt * 500 - t * 1000 ELSE NaN

\* {type: "ping", t0: t0}; t0 is a number of ms or Undef (field missing)
HandlePing(t0) ==
    LET rtt == Sub(now, t0)
    IN  /\ Step
        /\ Receiving
        /\ UNCHANGED <<netVars, offRate, ui>>
        /\ sent' = sendJSON(sockets, ws, Pong(t0))
        /\ driftShown' = Null
        /\ lastPingRTT' = rtt
        /\ clockOffsetMs' = estimateOffset(t0, rtt, now)
        /\ clockCalibrated' = TRUE
        /\ calls' = <<>>
        /\ ev' = [kind |-> "ping", tag |-> IF IsNum(t0) THEN "valid" ELSE "invalid"]
        /\ UNCHANGED <<now, hostUI, state, lastStateReason, myClientId, driftInt,
                       basePlaybackRate, lastAppliedRate, buffering, userSeeking, audio,
                       lastMsgState>>

\* a frame JSON.parse rejects, a JSON null, or a record of a type the engine ignores
\* (clients, error, anything else): nothing the engine owns changes
HandleOther(kind) ==
    /\ Step
    /\ Receiving
    /\ UNCHANGED <<netVars, offRate, ui>>
    /\ sent' = <<>>
    /\ driftShown' = Null
    /\ calls' = <<>>
    /\ ev' = [kind |-> "other", tag |-> kind]
    /\ UNCHANGED <<now, hostUI, state, lastStateReason, myClientId, clockOffsetMs,
                   lastPingRTT, clockCalibrated, driftInt, basePlaybackRate,
                   lastAppliedRate, buffering, userSeeking, audio, lastMsgState>>

----------------------------------------------------------------------------
\* Timers, the element's events and the user

ControlTick ==
    /\ Step
    /\ UNCHANGED <<netVars, offRate, ui>>
    /\ sent' = <<>>
    /\ driftShown' = Null
    /\ LET r == controlLoop
       IN  /\ audio' = r.audio
           /\ calls' = r.calls
           /\ driftInt' = r.driftInt
           /\ lastAppliedRate' = r.lastAppliedRate
           /\ ev' = [kind |-> "tick", tag |-> r.tag]
    /\ UNCHANGED <<now, hostUI, state, lastStateReason, myClientId, clockOffsetMs,
                   lastPingRTT, clockCalibrated, basePlaybackRate, buffering, userSeeking,
                   lastMsgState>>

\* seekRange "input": the slider is enabled on the host page only (setControlsEnabled)
SeekRangeInput(v) ==
    /\ Step
    /\ UNCHANGED <<netVars, offRate>>
    /\ ui' = [ui EXCEPT !.seekRange = v]
    /\ sent' = <<>>
    /\ driftShown' = Null
    /\ hostUI
    /\ userSeeking' = TRUE
    /\ audio' = [audio EXCEPT !.currentTime = v]
    /\ calls' = <<Call("seekTo", v)>>
    /\ ev' = [kind |-> "env", tag |-> ""]
    /\ UNCHANGED <<now, hostUI, state, lastStateReason, myClientId, clockOffsetMs,
                   lastPingRTT, clockCalibrated, driftInt, basePlaybackRate,
                   lastAppliedRate, buffering, lastMsgState>>

\* seekDragTimer fires 200 ms after the last slider input
SeekDragTimer ==
    /\ Step
    /\ UNCHANGED <<netVars, offRate, ui>>
    /\ sent' = <<>>
    /\ driftShown' = Null
    /\ userSeeking
    /\ userSeeking' = FALSE
    /\ calls' = <<>>
    /\ ev' = [kind |-> "env", tag |-> ""]
    /\ UNCHANGED <<now, hostUI, state, lastStateReason, myClientId, clockOffsetMs,
                   lastPingRTT, clockCalibrated, driftInt, basePlaybackRate,
                   lastAppliedRate, buffering, audio, lastMsgState>>

\* driftMs.toFixed(0): the nearest whole number of ms, halves away from zero
ToFixed0(x) ==
    IF ~IsNum(x) THEN NaN
    ELSE IF x >= 0 THEN (x + 500) \div 1000 ELSE -((500 - x) \div 1000)

\* (a variant that corrects the position, as the control loop does)
resyncNow_correcting ==
    IF audio.src = "" \/ state = Undefined THEN [label |-> Null, audio |-> audio]
    ELSE [label |-> ToFixed0(Sub(desired, audio.currentTime)),
          audio |-> [audio EXCEPT !.currentTime = desired]]

\* resyncNow(): the text it writes into the drift label, and the element after it.
\* With a source and state undefined, desiredPositionSec raises a TypeError.
resyncNow ==
    IF audio.src = "" \/ state = Undefined THEN [label |-> Null, audio |-> audio]
    ELSE [label |-> ToFixed0(Sub(desired, audio.currentTime)), audio |-> audio]

\* the element's "waiting" (b = TRUE) and "canplay"/"playing" (b = FALSE) events
AudioBuffering(b) ==
    /\ Step
    /\ UNCHANGED <<netVars, offRate, ui>>
    /\ sent' = <<>>
    /\ driftShown' = IF b THEN Null ELSE resyncNow.label
    /\ audio.src # ""
    /\ buffering' = b
    /\ audio' = IF b THEN audio ELSE resyncNow.audio
    /\ calls' = <<>>
    /\ ev' = [kind |-> "env", tag |-> IF b THEN "waiting" ELSE "canplay"]
    /\ UNCHANGED <<now, hostUI, state, lastStateReason, myClientId, clockOffsetMs,
                   lastPingRTT, clockCalibrated, driftInt, basePlaybackRate,
                   lastAppliedRate, userSeeking, lastMsgState>>

\* the element plays on: its position moves forward
AudioProgress(pos) ==
    /\ Step
    /\ UNCHANGED <<netVars, offRate, ui>>
    /\ sent' = <<>>
    /\ driftShown' = Null
    /\ audio.src # ""
    /\ ~audio.paused
    /\ pos > audio.currentTime
    /\ audio' = [audio EXCEPT !.currentTime = pos]
    /\ calls' = <<>>
    /\ ev' = [kind |-> "env", tag |-> ""]
    /\ UNCHANGED <<now, hostUI, state, lastStateReason, myClientId, clockOffsetMs,
                   lastPingRTT, clockCalibrated, driftInt, basePlaybackRate,
                   lastAppliedRate, buffering, userSeeking, lastMsgState>>

\* the local clock advances
ClockAdvance ==
    /\ Step
    /\ UNCHANGED <<netVars, offRate, ui>>
    /\ sent' = <<>>
    /\ driftShown' = Null
    /\ now < MaxNow
    /\ now' = now + 1
    /\ calls' = <<>>
    /\ ev' = [kind |-> "env", tag |-> ""]
    /\ UNCHANGED <<hostUI, state, lastStateReason, myClientId, clockOffsetMs,
                   lastPingRTT, clockCalibrated, driftInt, basePlaybackRate,
                   lastAppliedRate, buffering, userSeeking, audio, lastMsgState>>

----------------------------------------------------------------------------
\* The page's controls (UI event handlers) and the animation-frame loop

\* what each handler passes to sendJSON: a sequence of at most one message

\* setTrackBtn "click", with url the trimmed content of the track input
setTrackIntent(url) ==
    IF ~hostUI \/ url = "" THEN <<>>
    ELSE <<Control("set_track", RATE_ONE, url)>>

\* playPauseBtn "click" (reading state.track_url of an undefined state raises)
playPauseIntent ==
    IF ~hostUI \/ state = Undefined THEN <<>>
    ELSE IF state.track_url = "" THEN <<>>
    ELSE IF state.paused THEN <<Control("play", Undef, "")>>
    ELSE <<Control("pause", Undef, "")>>

\* seekRange "change", with pos the value of the slider
seekIntent(pos) ==
    IF ~hostUI THEN <<>>
    ELSE IF IsNum(pos) /\ pos >= 0 THEN <<Control("seek", pos, "")>> ELSE <<>>

\* (a variant that sends from any page)
volumeIntent_anyPage(v) == <<Control("set_volume", clamp(v, 0, 100), "")>>

\* volumeRange "input", with v the value of the slider
volumeIntent(v) ==
    IF hostUI THEN <<Control("set_volume", clamp(v, 0, 100), "")>> ELSE <<>>

\* the handler calls sendJSON with its message, if it has one
sendAll(msgs) ==
    IF msgs = <<>> THEN <<>> ELSE sendJSON(sockets, ws, msgs[1])

\* a handler that only sends: nothing else changes
UiSend(tag, msgs) ==
    /\ Step
    /\ page = "audio"
    /\ sent' = sendAll(msgs)
    /\ driftShown' = Null
    /\ calls' = <<>>
    /\ ev' = [kind |-> "ui", tag |-> tag]
    /\ UNCHANGED <<now, hostUI, state, lastStateReason, myClientId, clockOffsetMs,
                   lastPingRTT, clockCalibrated, driftInt, basePlaybackRate,
                   lastAppliedRate, buffering, userSeeking, audio, lastMsgState,
                   offRate, netVars>>

SetTrackClick(url) == UiSend("set_track", setTrackIntent(url)) /\ UNCHANGED ui

PlayPauseClick == UiSend("play_pause", playPauseIntent) /\ UNCHANGED ui

SeekRangeChange == UiSend("seek", seekIntent(ui.seekRange)) /\ UNCHANGED ui

\* wantHostCheckbox "change": the user has toggled the box
WantHostChange ==
    /\ UiSend("want_host", <<Hello(~ui.wantHost, "")>>)
    /\ ui' = [ui EXCEPT !.wantHost = ~ui.wantHost]

\* volumeRange "input": the volume is applied to the element, then sent from the host page
VolumeRangeInput(v) ==
    /\ Step
    /\ page = "audio"
    /\ LET p == applyVolume([audio |-> audio, calls |-> <<>>], v)
       IN  /\ audio' = p.audio
           /\ calls' = p.calls
    /\ sent' = sendAll(volumeIntent(v))
    /\ driftShown' = Null
    /\ ev' = [kind |-> "ui", tag |-> "set_volume"]
    /\ UNCHANGED <<now, hostUI, state, lastStateReason, myClientId, clockOffsetMs,
                   lastPingRTT, clockCalibrated, driftInt, basePlaybackRate,
                   lastAppliedRate, buffering, userSeeking, lastMsgState, offRate,
                   netVars, ui>>

\* tick(), the requestAnimationFrame callback: resyncNow() with a source and no drag,
\* then the slider follows the element; an exception in resyncNow ends the loop
AnimationFrame ==
    /\ Step
    /\ page = "audio"
    /\ ui.frames
    /\ LET resyncs == audio.src # "" /\ ~userSeeking
           throws == resyncs /\ state = Undefined
           r == IF resyncs THEN resyncNow ELSE [label |-> Null, audio |-> audio]
       IN  /\ audio' = r.audio
           /\ driftShown' = r.label
           /\ ui' = IF throws THEN [ui EXCEPT !.frames = FALSE]
                    ELSE IF ~userSeeking THEN [ui EXCEPT !.seekRange = r.audio.currentTime]
                    ELSE ui
    /\ sent' = <<>>
    /\ calls' = <<>>
    /\ ev' = [kind |-> "frame", tag |-> ""]
    /\ UNCHANGED <<now, hostUI, state, lastStateReason, myClientId, clockOffsetMs,
                   lastPingRTT, clockCalibrated, driftInt, basePlaybackRate,
                   lastAppliedRate, buffering, userSeeking, lastMsgState, offRate,
                   netVars>>

Next ==
    \/ \E s \in MsgStates : \E ok \in PlayOutcomes(s) : HandleInit(s, "c1", ok)
    \/ \E s \in MsgStates, reason \in SomeReasons :
           \E ok \in PlayOutcomes(s) : HandleState(s, reason, ok)
    \/ \E age \in PingAges : HandlePing(now - age)
    \/ HandlePing(Undef)
    \/ \E kind \in {"unparsable", "clients"} : HandleOther(kind)
    \/ ControlTick
    \/ \E b \in BOOLEAN : AudioBuffering(b)
    \/ \E pos \in Positions : AudioProgress(pos)
    \/ ClockAdvance
    \/ \E i \in DOMAIN sockets : WsOpen(i)

\* the listener page, during its first connection
Spec == Init /\ [][Next]_vars

\* the host page (/host): the same engine with the controls enabled, and the
\* server naming every reason
InitHost ==
    /\ hostUI = TRUE
    /\ EngineStart
    /\ AudioPageStart

\* the snapshots the host specification draws from: those at the base rate 1.0
HostSnapshots == {s \in Snapshots : s.playback_rate = RATE_ONE}

NextHost ==
    \/ \E s \in HostSnapshots : \E ok \in PlayOutcomes(s) : HandleInit(s, "c1", ok)
    \/ \E s \in HostSnapshots, reason \in Reasons :
           \E ok \in PlayOutcomes(s) : HandleState(s, reason, ok)
    \/ HandlePing(now)
    \/ HandlePing(Undef)
    \/ ControlTick
    \/ \E v \in Positions : SeekRangeInput(v)
    \/ SeekDragTimer
    \/ \E pos \in Positions : AudioProgress(pos)
    \/ ClockAdvance
    \/ \E i \in DOMAIN sockets : WsOpen(i)

SpecHost == InitHost /\ [][NextHost]_vars

\* The seek scenario: a listener whose probes come back at once (clock offset 0),
\* the host's seek to 30 s announced by the server, and play time passing in whole
\* tick periods with the element advancing at its playback rate.

\* the room playing since server time 0
PlayingSince0 ==
    [track_url |-> "a", paused |-> FALSE, position_sec |-> 0, start_epoch_ms |-> 0,
     playback_rate |-> RATE_ONE, volume |-> 100]

\* {paused: false, positionSec: 30, startEpochMs: T}: T is 30 s before the local clock
\* of the start (the server's start_epoch_ms = now - position * 1000), or that clock
\* itself; the base rate is 1.0, or 1.5
SeekSnapshots ==
    { [track_url |-> "a", paused |-> FALSE, position_sec |-> 30000000,
       start_epoch_ms |-> -27000, playback_rate |-> RATE_ONE, volume |-> 100],
      [track_url |-> "a", paused |-> FALSE, position_sec |-> 30000000,
       start_epoch_ms |-> 3000, playback_rate |-> RATE_ONE, volume |-> 100],
      [track_url |-> "a", paused |-> FALSE, position_sec |-> 30000000,
       start_epoch_ms |-> -27000, playback_rate |-> 150000, volume |-> 100] }

\* one tick period passes; the element, when it plays, advances at its playback rate
Elapse ==
    LET plays == audio.src # "" /\ ~audio.paused /\ ~buffering /\ IsNum(audio.playbackRate)
    IN
    /\ now + TICK_MS <= 3000 + MaxPlayTicks * TICK_MS
    /\ now' = now + TICK_MS
    /\ audio' = IF plays
                THEN [audio EXCEPT !.currentTime =
                         @ + Quot(TICK_MS * audio.playbackRate, RATE_ONE \div 1000)]
                ELSE audio
    /\ offRate' = (offRate \/ (plays /\ audio.playbackRate # lastAppliedRate))
    /\ calls' = <<>>
    /\ ev' = [kind |-> "env", tag |-> ""]
    /\ UNCHANGED <<hostUI, state, lastStateReason, myClientId, clockOffsetMs,
                   lastPingRTT, clockCalibrated, driftInt, basePlaybackRate,
                   lastAppliedRate, buffering, userSeeking, nSteps, lastMsgState, netVars,
                   ui>>
    /\ sent' = <<>>
    /\ driftShown' = Null

NextSeek ==
    \/ \E i \in DOMAIN sockets : WsOpen(i)
    \/ \E ok \in BOOLEAN : HandleInit(PlayingSince0, "c1", ok)
    \/ HandlePing(now)
    \/ \E s \in SeekSnapshots, ok \in BOOLEAN : HandleState(s, "seek", ok)
    \/ ControlTick
    \/ Elapse

SpecSeek == Init /\ [][NextSeek]_vars

\* The audio client across connections: the transport closes and is replaced while
\* the engine goes on.
SessionSnapshots == {s \in Snapshots : s.track_url = "a" /\ s.playback_rate = RATE_ONE}

SessionReasons == {"periodic", "pause", "seek"}

NextSession ==
    \/ \E i \in DOMAIN sockets : WsOpen(i)
    \/ \E i \in DOMAIN sockets : WsClose(i)
    \/ \E t \in timers : ReconnectTimer(t, MaxSessions)
    \/ \E s \in SessionSnapshots : \E ok \in PlayOutcomes(s) : HandleInit(s, "c1", ok)
    \/ \E s \in SessionSnapshots, reason \in SessionReasons :
           \E ok \in PlayOutcomes(s) : HandleState(s, reason, ok)
    \/ \E age \in PingAges : HandlePing(now - age)
    \/ ControlTick

SpecSession == Init /\ [][NextSession]_vars

\* host.js or the listener client has run to its end with the primary endpoint url:
\* connectWebSocket() was called once
YouTubePageStart(pg, url) ==
    /\ page = pg
    /\ PRIMARY_WS_URL = url
    /\ ws = 0
    /\ reconnectAttempts = 0
    /\ LET c == connectWebSocket([clientState |-> InitialClientState,
                                  sockets |-> <<>>, timers |-> {}],
                                 FALSE, 3000, 0)
       IN  /\ clientState = c.clientState
           /\ sockets = c.sockets
           /\ timers = c.timers

\* The base rate: snapshots that advise the rate 1.0, the rate 1.5, or carry no
\* playback_rate field, applied while the control loop runs.
RateSnapshots ==
    { [PlayingSince0 EXCEPT !.playback_rate = r] : r \in {RATE_ONE, 150000, Undef} }

NextRate ==
    \/ \E i \in DOMAIN sockets : WsOpen(i)
    \/ \E s \in RateSnapshots, ok \in BOOLEAN : HandleInit(s, "c1", ok)
    \/ \E s \in RateSnapshots, reason \in SomeReasons, ok \in BOOLEAN :
           HandleState(s, reason, ok)
    \/ \E age \in PingAges : HandlePing(now - age)
    \/ ControlTick
    \/ \E pos \in Positions : AudioProgress(pos)

SpecRate == Init /\ [][NextRate]_vars

\* The track reference: the server announces a track by an absolute URL ("a") or by a
\* same-origin path ("/r", the README's /media/song.mp3), paused at 42 s or playing
TrackSnapshots ==
    { [track_url |-> u, paused |-> pz, position_sec |-> 42000000, start_epoch_ms |-> 0,
       playback_rate |-> RATE_ONE, volume |-> 100] : u \in {"a", "/r"}, pz \in BOOLEAN }

TrackReasons == {"periodic", "set_volume", "set_track"}

NextTrack ==
    \/ \E i \in DOMAIN sockets : WsOpen(i)
    \/ \E s \in TrackSnapshots : \E ok \in PlayOutcomes(s) : HandleInit(s, "c1", ok)
    \/ \E s \in TrackSnapshots, reason \in TrackReasons :
           \E ok \in PlayOutcomes(s) : HandleState(s, reason, ok)
    \/ HandlePing(now)
    \/ ControlTick
    \/ \E pos \in Positions : AudioProgress(pos)

SpecTrack == Init /\ [][NextTrack]_vars

\* Convergence: a playing listener whose clock estimate moves by a probe, then the
\* control loop running period after period while the element plays at the rate
\* written to it, with the server's periodic snapshots arriving in between.

\* server send times of the probe, as ms before the local clock reading (negative when
\* the server's clock is ahead): drifts of 0, -26, -30, -100, -1500, +30, +1500 ms
ConvergeAges == {0, 52, 60, 200, 3000, -60, -3000}

\* how far the element gets ahead of the server's timeline in one period at rate r
Excess(r) == Quot(TICK_MS * (r - RATE_ONE), RATE_ONE \div 1000)

\* One period of the interval timer: the callback runs, then the element plays for
\* TICK_MS at the rate it holds. Clock and position are kept relative to the
\* server's timeline, which moves on by TICK_MS as well while the room plays: the
\* clock reading stays and the position moves by the element's excess over the
\* timeline, so the drift the next callback computes is the drift of the code.
TickPeriod ==
    /\ page = "audio"
    /\ state # Undefined /\ ~state.paused
    /\ clockCalibrated /\ ~buffering
    /\ audio.src # "" /\ ~audio.paused
    /\ \E r \in {controlLoop} :
           /\ IsNum(r.audio.playbackRate)
           /\ audio' = [r.audio EXCEPT !.currentTime = @ + Excess(r.audio.playbackRate)]
           /\ calls' = r.calls
           /\ driftInt' = r.driftInt
           /\ lastAppliedRate' = r.lastAppliedRate
           /\ ev' = [kind |-> "tick", tag |-> r.tag]
    /\ sent' = <<>>
    /\ driftShown' = Null
    /\ UNCHANGED <<now, hostUI, state, lastStateReason, myClientId, clockOffsetMs,
                   lastPingRTT, clockCalibrated, basePlaybackRate, buffering, userSeeking,
                   lastMsgState, nSteps, netVars, offRate, ui>>

\* {type: "state", reason: "periodic"} carrying the state the client already mirrors
PeriodicSnapshot ==
    /\ state # Undefined /\ ~state.paused
    /\ clockCalibrated
    /\ StateMessage(state, "periodic", TRUE)
    /\ UNCHANGED nSteps

\* The server either sends no periodic snapshot, or one in every period of the
\* interval timer, from the probe on (lastStateReason tells which).
NextConverge ==
    \/ \E i \in DOMAIN sockets : WsOpen(i)
    \/ ev.kind = "open" /\ HandleInit(PlayingSince0, "c1", TRUE)
    \/ ev.kind = "init" /\ \E age \in ConvergeAges : HandlePing(now - age)
    \/ lastStateReason = "null" /\ TickPeriod
    \/ lastStateReason = "periodic" /\ ev.kind = "state" /\ TickPeriod
    \/ /\ ev.kind = "ping" \/ (ev.kind = "tick" /\ lastStateReason = "periodic")
       /\ PeriodicSnapshot

\* the interval timer fires every period
SpecConverge == Init /\ [][NextConverge]_vars /\ WF_vars(TickPeriod)

\* The controls and the outbound messages: the audio client on the listener page and
\* on the host page, and the host page of host.js, across connections.
UISnapshots == {s \in Snapshots : s.playback_rate = RATE_ONE /\ s.position_sec = 0}

UIReasons == {"set_volume", "play"}

InitUI ==
    /\ EngineStart
    /\ \/ hostUI \in BOOLEAN /\ AudioPageStart
       \/ hostUI = FALSE /\ YouTubePageStart("host", "ws://p/ws")

\* the events of a run of this specification are bounded by MaxUiSteps
UiBudget == nSteps < MaxUiSteps

NextUI ==
    \/ \E i \in DOMAIN sockets : WsOpen(i)
    \/ \E i \in DOMAIN sockets : WsClose(i)
    \/ \E t \in timers : ReconnectTimer(t, MaxSessions)
    \/ \E i \in DOMAIN sockets : OnSocketOpen(i)
    \/ \E i \in DOMAIN sockets : OnSocketClose(i)
    \/ \E t \in timers : ConnectTimer(t, MaxSessions)
    \/ \E partial \in {"", "is_playing"} : PushState(partial)
    \/ UiBudget /\ \E s \in UISnapshots \cup {Undefined} :
                       \E ok \in PlayOutcomes(s) : HandleInit(s, "c1", ok)
    \/ UiBudget /\ \E s \in UISnapshots, reason \in UIReasons :
                       \E ok \in PlayOutcomes(s) : HandleState(s, reason, ok)
    \/ UiBudget /\ HandlePing(now - 61)
    \/ UiBudget /\ HandlePing(Undef)
    \/ UiBudget /\ \E url \in {"", "a"} : SetTrackClick(url)
    \/ UiBudget /\ PlayPauseClick
    \/ UiBudget /\ \E v \in Positions : SeekRangeInput(v)
    \/ UiBudget /\ SeekRangeChange
    \/ UiBudget /\ \E v \in {30} : VolumeRangeInput(v)
    \/ UiBudget /\ WantHostChange
    \/ UiBudget /\ AnimationFrame
    \/ UiBudget /\ AudioBuffering(FALSE)

SpecUI == InitUI /\ [][NextUI]_vars

\* the connection layer of each client on its own: the page is the audio client, the
\* host page (host.js) or the listener client, with any primary endpoint configured
InitConn ==
    /\ hostUI = FALSE
    /\ EngineStart
    /\ \/ AudioPageStart
       \/ \E pg \in {"host", "listener"}, url \in Endpoints : YouTubePageStart(pg, url)

NextConn ==
    \/ \E i \in DOMAIN sockets : WsOpen(i)
    \/ \E i \in DOMAIN sockets : WsError(i)
    \/ \E i \in DOMAIN sockets : WsClose(i)
    \/ \E t \in timers : ReconnectTimer(t, MaxSockets)
    \/ \E i \in DOMAIN sockets : OnSocketOpen(i)
    \/ \E i \in DOMAIN sockets : OnSocketError(i)
    \/ \E i \in DOMAIN sockets : OnSocketClose(i)
    \/ \E t \in timers : ConnectTimer(t, MaxSockets)

SpecConn == InitConn /\ [][NextConn]_vars

\* the same, with every pending timeout firing eventually
SpecConnFair ==
    /\ InitConn
    /\ [][NextConn]_vars
    /\ WF_vars(\E t \in timers : ReconnectTimer(t, MaxSockets))
    /\ WF_vars(\E t \in timers : ConnectTimer(t, MaxSockets))

\* the embedded-player clients: host.js or the listener client with its transport,
\* the messages of the server, the player becoming ready and the controls of the page
InitPlayer ==
    /\ hostUI = FALSE
    /\ EngineStart
    /\ \E pg \in {"host", "listener"}, url \in {"ws://p/ws", "ws://h/ws"} :
           YouTubePageStart(pg, url)

NextPlayer ==
    \/ \E i \in DOMAIN sockets : OnSocketOpen(i)
    \/ \E i \in DOMAIN sockets : OnSocketClose(i)
    \/ \E t \in timers : ConnectTimer(t, MaxPlayerSockets)
    \/ \E st \in VideoSnapshots \cup {NullState}, ok \in BOOLEAN : HostHello(st, ok)
    \/ \E st \in VideoSnapshots, ok \in BOOLEAN : HostSyncState(st, ok)
    \/ ListenerHello
    \/ \E st \in VideoSnapshots, ok \in BOOLEAN : ListenerSyncState(st, ok)
    \/ ApiReady
    \/ \E ok \in BOOLEAN : PlayerReady(ok)
    \/ \E videoId \in TypedVideoIds, ok \in BOOLEAN : LoadVideoClick(videoId, ok)
    \/ \E ok \in BOOLEAN : PlayClick(ok)
    \/ ListenerVolumeInput(70)
    \/ PushState("")

SpecPlayer == InitPlayer /\ [][NextPlayer]_vars

----------------------------------------------------------------------------
\* Observations the properties share

\* the drift the control loop computes in the current state
Drift == IF state = Undefined THEN NaN ELSE Sub(desired, audio.currentTime)

Playing == state # Undefined /\ ~state.paused

InSaneBounds(r) == Le(RATE_LO, r) /\ Le(r, RATE_HI)

----------------------------------------------------------------------------
\* C1: the applied playback rate (lastAppliedRate, and the rate written to the
\* element) is within [0.5, 2.0] in every reachable state, whatever base rate
\* the server advises.
C1_AppliedRateInSaneBounds ==
    /\ InSaneBounds(lastAppliedRate)
    /\ InSaneBounds(audio.playbackRate)

\* C2: a control tick, whichever branch it takes, changes the applied rate by at
\* most maxSlew = 0.004.
C2_SlewBoundEveryTick ==
    [][ev'.kind = "tick" =>
          Le(MathAbs(Sub(lastAppliedRate', lastAppliedRate)), MAX_RATE_SLEW)]_vars

AlignerDrift(s) ==
    LET p == ensureAudioSource([audio |-> audio, calls |-> <<>>], s.track_url)
    IN  Sub(MathMax(0, desiredPositionSec(s, clockOffsetMs, now)), p.audio.currentTime)

C4_DeadBandIdempotent ==
    [][/\ (ev'.kind = "tick" /\ Le(MathAbs(Drift), 25000)) => SeekCalls(calls') = {}
       /\ (ev'.kind \in {"init", "state"} /\ state' # Undefined
             /\ Le(MathAbs(AlignerDrift(state')), 25000)) => SeekCalls(calls') = {}
       /\ (ev'.kind = "tick" /\ ev'.tag = "dead") =>
             /\ Le(MathAbs(Sub(lastAppliedRate', basePlaybackRate)),
                   MathAbs(Sub(lastAppliedRate, basePlaybackRate)))
             /\ \/ Le(basePlaybackRate, lastAppliedRate) /\ Le(basePlaybackRate, lastAppliedRate')
                \/ Le(lastAppliedRate, basePlaybackRate) /\ Le(lastAppliedRate', basePlaybackRate)
      ]_vars

\* C5: a control tick while the room is paused, the player is buffering or the
\* clock is uncalibrated issues no seek and leaves the integral term and the
\* position as they were, however large the drift.
C5_NoCorrectionWhenSuppressed ==
    [][(/\ ev'.kind = "tick"
        /\ \/ buffering
           \/ ~clockCalibrated
           \/ (state # Undefined /\ state.paused)) =>
          /\ SeekCalls(calls') = {}
          /\ driftInt' = driftInt
          /\ audio'.currentTime = audio.currentTime]_vars

C5_Witness ==
    /\ ev.kind = "tick" /\ ev.tag = "relax"
    /\ Playing /\ clockCalibrated /\ buffering
    /\ Gt(MathAbs(Drift), 1500000)

\* C6 (as stated): a snapshot applied with reason init, seek, set_track or play
\* seeks the player to the desired position exactly when |desired - actual| > 25 ms
\* and leaves the position untouched otherwise; with any other reason no seek is
\* issued. (actual is the position the aligner reads, after the source was set.)
AfterLoad(s) == ensureAudioSource([audio |-> audio, calls |-> <<>>], s.track_url).audio

AlignmentAsClaimed(s, reason) ==
    LET want == MathMax(0, desiredPositionSec(s, clockOffsetMs, now))
        actual == AfterLoad(s).currentTime
    IN  IF reason \in {"init", "seek", "set_track", "play"}
        THEN /\ (SeekCalls(calls') # {}) <=> Gt(MathAbs(Sub(want, actual)), 25000)
             /\ SeekCalls(calls') # {} =>
                    /\ \A i \in SeekCalls(calls') : calls'[i].arg = want
                    /\ audio'.currentTime = want
             /\ SeekCalls(calls') = {} => audio'.currentTime = actual
        ELSE /\ SeekCalls(calls') = {}
             /\ audio'.currentTime = actual

C7_PausedDesiredIsFrozen ==
    (lastMsgState # Undefined /\ lastMsgState.paused) =>
        /\ state # Undefined
        /\ desiredPositionSec(state, clockOffsetMs, now) = lastMsgState.position_sec

C7_Witness ==
    /\ lastMsgState # Undefined /\ lastMsgState.paused
    /\ lastMsgState.position_sec = 42000000
    /\ ev.kind = "ping"
    /\ clockOffsetMs # 0
    /\ now = 3001

C9_MalformedMessageDropped ==
    [][(\/ (ev'.kind = "other" /\ ev'.tag = "unparsable")
        \/ (ev'.kind \in {"init", "state"} /\ lastMsgState' = Undefined)) =>
          UNCHANGED <<state, clockOffsetMs, lastPingRTT, clockCalibrated, driftInt,
                      basePlaybackRate, lastAppliedRate>>]_vars

\* C10: a ping whose t0 is missing or not a number changes neither the clock
\* offset, nor lastRtt, nor the calibrated flag.
C10_InvalidPingDropped ==
    [][(ev'.kind = "ping" /\ ev'.tag = "invalid") =>
          UNCHANGED <<clockOffsetMs, lastPingRTT, clockCalibrated>>]_vars

\* C11: a valid ping with server timestamp t0, received at local time now with
\* measured round trip rtt (= now - t0), stores the offset t0 + rtt/2 - now and
\* sets calibrated; the server clock estimate used for the desired position is
\* the local clock plus that offset.
C11_OffsetFormula ==
    [][(ev'.kind = "ping" /\ ev'.tag = "valid") =>
          LET rtt == lastPingRTT'
              t0 == now - rtt
          IN  /\ IsNum(rtt)
              /\ 2 * clockOffsetMs' = 2000 * t0 + 1000 * rtt - 2000 * now
              /\ clockCalibrated'
              /\ Playing =>
                    desiredPositionSec(state', clockOffsetMs', now') =
                        Max(0, (now' * 1000 + clockOffsetMs') - state'.start_epoch_ms * 1000)
       ]_vars

C11_Witness ==
    /\ ev.kind = "ping" /\ ev.tag = "valid"
    /\ lastPingRTT = 61
    /\ clockOffsetMs = -30500
    /\ clockCalibrated
    /\ Playing
    /\ desired = 2969500

----------------------------------------------------------------------------
\* Observations of the connection layer

LiveSockets == {i \in DOMAIN sockets : Live(i)}

\* the transport that closes in the step, when the step is a close
ClosingSocket ==
    CHOOSE i \in DOMAIN sockets : Live(i) /\ sockets'[i].readyState = "closed"

\* the closes that came before the close of transport i since a transport last opened
ClosesSinceOpen(i) ==
    LET opened == {j \in 1..i : sockets[j].opened}
        last == CHOOSE j \in opened \cup {1} : \A h \in opened : h <= j
    IN  i - last

\* the delays of the backoff, written out
ExpectedDelay(k) ==
    IF k = 0 THEN 500 ELSE IF k = 1 THEN 1000 ELSE IF k = 2 THEN 2000
    ELSE IF k = 3 THEN 4000 ELSE 5000

\* C12: in the audio client the k-th consecutive close without an open in between
\* (k = 0, 1, 2, ...) schedules the next connect after min(5000, 500 * 2^k) ms:
\* 500, 1000, 2000, 4000, 5000, 5000, ...
C12_BackoffDelays ==
    [][(page = "audio" /\ ev'.kind = "close") =>
          LET k == ClosesSinceOpen(ClosingSocket)
          IN  /\ Cardinality(timers' \ timers) = 1
              /\ \A t \in timers' \ timers :
                    /\ t.due - now = ExpectedDelay(k)
                    /\ t.due - now <= 5000]_vars

C12_Witness ==
    /\ page = "audio" /\ ev.kind = "close"
    /\ \A i \in DOMAIN sockets : ~sockets[i].opened
    /\ Len(sockets) = 6
    /\ \E t \in timers : t.due - now = 5000

\* C13: the attempt counter of the audio client becomes 0 when a transport opens
\* and at no other step; every close adds exactly one; the first close after a
\* transport opened schedules the connect after the floor delay, 500 ms.
C13_CounterReset ==
    [][page = "audio" =>
          /\ ev'.kind = "open" => reconnectAttempts' = 0
          /\ (reconnectAttempts # 0 /\ reconnectAttempts' = 0) => ev'.kind = "open"
          /\ ev'.kind = "close" => reconnectAttempts' = reconnectAttempts + 1
          /\ ev'.kind \notin {"open", "close"} => reconnectAttempts' = reconnectAttempts
          /\ (ev'.kind = "close" /\ sockets[ClosingSocket].opened) =>
                \A t \in timers' \ timers : t.due - now = 500]_vars

C13_Witness ==
    /\ page = "audio" /\ ev.kind = "close"
    /\ Len(sockets) = 3
    /\ ~sockets[1].opened /\ ~sockets[2].opened /\ sockets[3].opened
    /\ reconnectAttempts = 1
    /\ \E t \in timers : t.due - now = 500

\* C14: in every client a transport goes connecting -> open -> closed or
\* connecting -> closed, and whenever no transport is connecting or open a new
\* connection attempt is eventually started (the timers firing).
Disconnected == LiveSockets = {}

C14_AlwaysReconnects ==
    /\ [][\A i \in DOMAIN sockets :
            sockets'[i].readyState # sockets[i].readyState =>
               <<sockets[i].readyState, sockets'[i].readyState>> \in
                  {<<"connecting", "open">>, <<"connecting", "closed">>,
                   <<"open", "closed">>}]_vars
    /\ (Disconnected /\ Len(sockets) < MaxSockets) ~> ~Disconnected

\* C15: at most one transport is connecting or open, at most one reconnect timer is
\* pending, never both; and the close of a transport leaves the reference to any
\* other transport as it was.
C15_OneTransportOrTimer ==
    /\ [](Cardinality(LiveSockets) + Cardinality(timers) <= 1)
    /\ [][ev'.kind = "close" =>
            /\ ws \notin {0, ClosingSocket} => ws' = ws
            /\ clientState'.socket = clientState.socket]_vars

C15_Witness ==
    /\ page = "listener" /\ PRIMARY_WS_URL = "ws://p/ws"
    /\ ev.kind = "timer"
    /\ Len(sockets) = 3
    /\ Cardinality(LiveSockets) = 1 /\ timers = {}
    /\ clientState.socket = 3

----------------------------------------------------------------------------
\* C16: the media-control calls a handler issues, and everything a later handler
\* reads, are a function of the state before, the message (or tick) and the clock
\* and player readings: nothing depends on whether the browser lets play() start.
\* Two runs fed the same inputs and readings therefore issue the same calls.
\* the element and the calls of the handler up to its last statement, tryPlay()
\* (a set of one element)
BeforePlay(kind, reason, s) ==
    LET loaded == {ensureAudioSource([audio |-> audio, calls |-> <<>>], s.track_url)}
        voiced == {applyVolume(p1, s.volume) : p1 \in loaded}
    IN  {IF kind = "init" \/ alignsOnce(reason)
         THEN performJumpAlign(p2, IF kind = "init" THEN "init" ELSE reason, s)
         ELSE p2 : p2 \in voiced}

Readings(a) == [src |-> a.src, currentTime |-> a.currentTime, playbackRate |-> a.playbackRate,
                volume |-> a.volume]

----------------------------------------------------------------------------
\* C17 (as stated): a playing listener with clock offset 0 that receives reason seek
\* with {paused: false, positionSec: 30, startEpochMs: T} issues exactly one seek, to
\* 30.0; at every later control tick, the element advancing at the applied rate and
\* no other snapshot applied, |drift| <= 25 ms and no seek is issued.
SeekTo30(s) == s # Undefined /\ ~s.paused /\ s.position_sec = 30000000

PlayingListener == Playing /\ audio.src # "" /\ ~audio.paused /\ clockOffsetMs = 0

OneSeekTo30 ==
    /\ Cardinality(SeekCalls(calls')) = 1
    /\ \A i \in SeekCalls(calls') : calls'[i].arg = 30000000
    /\ audio'.currentTime = 30000000

HoldsDeadBand ==
    /\ Le(MathAbs(Drift), DEAD_BAND_MS * 1000)
    /\ SeekCalls(calls') = {}

C17_SeekThenHold ==
    [][/\ (ev'.kind = "state" /\ ev'.tag = "seek" /\ SeekTo30(state') /\ PlayingListener)
             => OneSeekTo30
       /\ (ev'.kind = "tick" /\ lastStateReason = "seek" /\ SeekTo30(state)
             /\ PlayingListener /\ ~offRate)
             => HoldsDeadBand]_vars

\* C17 (amended): for a snapshot at base rate 1.0, exactly one seek to 30.0 is issued
\* when the snapshot is applied while the listener's server clock reads T + 30 s (the
\* server's start_epoch_ms = time of the seek - 30 s, delivered at once) and the
\* player is more than 25 ms away from 30.0; the ticks after it hold the dead band.
AtServerPosition30(s) ==
    /\ s.playback_rate = RATE_ONE
    /\ now * 1000 + clockOffsetMs - s.start_epoch_ms * 1000 = 30000000

C17_SeekThenHoldOnTime ==
    [][/\ (ev'.kind = "state" /\ ev'.tag = "seek" /\ SeekTo30(state') /\ PlayingListener
             /\ AtServerPosition30(state')
             /\ Gt(MathAbs(Sub(30000000, audio.currentTime)), DEAD_BAND_MS * 1000))
             => OneSeekTo30
       /\ (ev'.kind = "tick" /\ lastStateReason = "seek" /\ SeekTo30(state)
             /\ PlayingListener /\ ~offRate
             /\ state.playback_rate = RATE_ONE)
             => HoldsDeadBand]_vars

\* two tick periods after the seek, calibrated, a tick finds the player on the timeline
C17_Witness ==
    /\ ev.kind = "tick" /\ ev.tag = "dead"
    /\ lastStateReason = "seek" /\ SeekTo30(state) /\ state.start_epoch_ms = -27000
    /\ state.playback_rate = RATE_ONE
    /\ PlayingListener /\ clockCalibrated
    /\ now = 3400
    /\ audio.currentTime = 30400000
    /\ Drift = 0

----------------------------------------------------------------------------
\* C18: when a snapshot with paused = true is applied on a listener whose element is
\* playing, the element is paused by the handler; and while the mirrored room is
\* paused the position of the element does not advance (until the next snapshot).
C18_PauseStopsPlayback ==
    [][/\ (ev'.kind \in {"init", "state"} /\ state' # Undefined /\ state'.paused
             /\ Playing /\ ~audio.paused)
             => audio'.paused
       /\ (ev'.kind \notin {"init", "state"} /\ state # Undefined /\ state.paused)
             => audio'.currentTime = audio.currentTime]_vars

----------------------------------------------------------------------------
\* C19: the clock estimate is uncalibrated at the start; by the time a later
\* transport opens it is uncalibrated again, and nothing but a reconnect (close,
\* timer, open) takes the calibration away; so a control tick that comes right
\* after the new transport opened, before any probe on it, attempts no correction.
Reconnected == ev.kind = "open" /\ Len(sockets) > 1

C19_ReconnectClearsCalibration ==
    /\ ~clockCalibrated
    /\ [][/\ (ev'.kind = "open" /\ Len(sockets) > 1) => ~clockCalibrated'
          /\ (clockCalibrated /\ ~clockCalibrated') => ev'.kind \in {"close", "timer", "open"}
          /\ (Reconnected /\ ev'.kind = "tick") =>
                /\ ev'.tag = "relax"
                /\ SeekCalls(calls') = {}
                /\ driftInt' = driftInt]_vars

\* C20: the first snapshot applied after a transport opened is aligned whatever its
\* message type and reason: with a source loaded, the player is seeked to the
\* desired position exactly when |desired - actual| > 25 ms.
C20_FirstSnapshotAligns ==
    [][((ev.kind = "open" /\ ev'.kind \in {"init", "state"}
          /\ state' # Undefined /\ state'.track_url # "") =>
            AlignmentAsClaimed(state', "init"))]_vars

----------------------------------------------------------------------------
\* Observations of the outbound messages

HelloSent(ms) == \E i \in DOMAIN ms : ms[i].type = "hello"
PongsSent(ms) == {i \in DOMAIN ms : ms[i].type = "pong"}
ControlsSent(ms) == {i \in DOMAIN ms : ms[i].type = "control"}

\* the transport sendJSON would use is open
TransportOpen == ws # 0 /\ sockets[ws].readyState = "open"

\* C21: a state message with reason host_transfer, received on an open connection,
\* makes the client send a hello (the role request) within its handling.
C21_HostTransferHandshake ==
    [][(ev'.kind = "state" /\ ev'.tag = "host_transfer") => HelloSent(sent')]_vars

\* C22: every applied snapshot (init or state, whatever the reason) halves the
\* integral term (to the resolution of the fixed point; NaN stays NaN) and sets the
\* base rate to the snapshot's playback_rate, or to 1.0 when that is not a number.
C22_SnapshotHalvesIntegral ==
    [][(ev'.kind \in {"init", "state"} /\ lastMsgState' # Undefined) =>
          /\ IF IsNum(driftInt) THEN Abs(2 * driftInt' - driftInt) <= 1
                               ELSE driftInt' = NaN
          /\ basePlaybackRate' = IF IsNum(lastMsgState'.playback_rate)
                                 THEN lastMsgState'.playback_rate ELSE RATE_ONE]_vars

\* a snapshot without playback_rate, applied with the integral at -6100
C22_Witness ==
    /\ ev.kind = "state" /\ ev.tag = "periodic"
    /\ state # Undefined /\ state.playback_rate = Undef
    /\ basePlaybackRate = RATE_ONE
    /\ driftInt = -3050

\* C23: a control tick that takes the hard-seek branch leaves the applied rate equal
\* to the base rate.
C23_HardSeekResetsRate ==
    [][(ev'.kind = "tick" /\ ev'.tag = "hard") => lastAppliedRate' = basePlaybackRate]_vars

\* C24: a control tick while playing, calibrated and not buffering, with
\* 25 ms < |drift| <= 1500 ms, takes the PI branch: the integral becomes
\* integral * 0.98 + drift * 0.2 (to the resolution of the fixed point), the target is
\* base * (1 + clamp(0.10 * drift + 0.02 * integral, -0.015, 0.015)), which lies within
\* [0.985 * base, 1.015 * base], the applied rate moves toward that target, and with
\* the integral at 0 before the tick the target is above base when the player is
\* behind and below base when it is ahead.
InPiBand ==
    /\ Playing /\ clockCalibrated /\ ~buffering /\ audio.src # ""
    /\ Gt(MathAbs(Drift), DEAD_BAND_MS * 1000)
    /\ Le(MathAbs(Drift), HARD_SEEK_LIMIT_MS * 1000)

PiStepAsClaimed ==
    /\ IsNum(driftInt) /\ IsNum(driftInt')
    /\ Abs(100 * driftInt' - (98 * driftInt + 20 * Drift)) <= 200
    /\ LET off == clamp(Quot(Drift, 100) + Quot(driftInt', 500), -1500, 1500)
           tgt == basePlaybackRate + Quot(basePlaybackRate * off, RATE_ONE)
       IN  /\ 985 * basePlaybackRate <= 1000 * tgt
           /\ 1000 * tgt <= 1015 * basePlaybackRate
           /\ lastAppliedRate' =
                 targetRateTowards([audio |-> audio, calls |-> <<>>],
                                   lastAppliedRate, tgt).lastAppliedRate
           /\ driftInt = 0 => (Drift > 0 => tgt > basePlaybackRate)
           /\ driftInt = 0 => (Drift < 0 => tgt < basePlaybackRate)

C24_PiBranch ==
    [][(ev'.kind = "tick" /\ InPiBand) => (ev'.tag = "pi" /\ PiStepAsClaimed)]_vars

\* C25: the display-refresh path, that is the animation-frame callback and
\* resyncNow() (which the canplay and playing handlers also call), leaves RoomState,
\* the clock estimate, the control-loop state and the player's position, rate and
\* volume as they were, and issues no media-control call and no message.
RefreshStep == ev'.kind = "frame" \/ (ev'.kind = "env" /\ ev'.tag = "canplay")

C25_DisplayRefreshIsPassive ==
    [][RefreshStep =>
          /\ UNCHANGED <<state, clockOffsetMs, lastPingRTT, clockCalibrated, driftInt,
                         lastAppliedRate, basePlaybackRate>>
          /\ Readings(audio') = Readings(audio)
          /\ audio'.paused = audio.paused
          /\ calls' = <<>>
          /\ sent' = <<>>]_vars

\* a frame that found the player 3000 ms behind: it wrote the label, nothing else
C25_Witness ==
    /\ ev.kind = "frame"
    /\ driftShown = 3000
    /\ Playing /\ audio.src # ""
    /\ audio.currentTime = 0
    /\ ui.seekRange = 0

\* C26: on the host page a control (set track, play/pause, seek, volume) only sends
\* its intent: the handler changes neither the mirrored RoomState nor the player's
\* position, volume or play state.
C26_IntentsNotOptimistic ==
    [][(ev'.kind = "ui" /\ hostUI) =>
          /\ state' = state
          /\ audio'.currentTime = audio.currentTime
          /\ audio'.volume = audio.volume
          /\ audio'.paused = audio.paused]_vars

\* C27: every ping received (on an open transport) is answered within its handling by
\* exactly one pong that carries the t0 of the ping (no t0 when the ping had none),
\* and a pong is sent by no other handler.
C27_PingAnsweredOnce ==
    [][/\ ev'.kind = "ping" =>
             /\ Len(sent') = 1
             /\ sent'[1].type = "pong"
             /\ sent'[1].num = IF ev'.tag = "valid" THEN now - lastPingRTT' ELSE Undef
       /\ PongsSent(sent') # {} => ev'.kind = "ping"]_vars

\* a ping answered on the second transport of the session
C27_Witness ==
    /\ ev.kind = "ping" /\ ev.tag = "valid"
    /\ Len(sockets) = 2 /\ ws = 2 /\ TransportOpen
    /\ lastPingRTT = 61
    /\ sent = <<Pong(now - 61)>>

\* C28: on a page other than the host page no handler sends a control message,
\* whichever control the event comes from; and on any page a play or pause control
\* is sent only while the mirrored state names a track.
C28_OnlyHostPageControls ==
    [][/\ ~hostUI => ControlsSent(sent') = {}
       /\ \A i \in ControlsSent(sent') :
             sent'[i].action \in {"play", "pause"} =>
                state # Undefined /\ state.track_url # ""]_vars

\* the volume slider handled on the listener page, transport open: applied, not sent
C28_Witness ==
    /\ ~hostUI /\ page = "audio"
    /\ ev.kind = "ui" /\ ev.tag = "set_volume"
    /\ TransportOpen
    /\ audio.volume = 30
    /\ sent = <<>>


\* C29: a message handed to sendJSON (or pushState) while the transport is not open
\* is dropped: the handler sends nothing, its other effects are those it has with
\* the transport open, and nothing the engine owns changes because of the failure;
\* no later step sends it: the step that opens a transport sends the hello of
\* ws.onopen at most, and close, error and timer steps send nothing.
HostSocketOpen ==
    clientState.socket # 0 /\ sockets[clientState.socket].readyState = "open"

C29_FireAndForget ==
    [][/\ (ev'.kind = "ui" /\ ~TransportOpen) =>
             /\ sent' = <<>>
             /\ UNCHANGED <<state, clockOffsetMs, lastPingRTT, clockCalibrated, driftInt,
                            basePlaybackRate, lastAppliedRate>>
             /\ audio' = IF ev'.tag = "set_volume"
                         THEN [audio EXCEPT !.volume = audio'.volume] ELSE audio
       /\ (ev'.kind = "push" /\ ~HostSocketOpen) =>
             sent' = <<>> /\ clientState' = clientState
       /\ ev'.kind = "open" =>
             sent' = IF page = "audio" THEN <<Hello(ui.wantHost, displayName)>> ELSE <<>>
       /\ ev'.kind \in {"close", "error", "timer"} => sent' = <<>>]_vars

\* the host page pressed play/pause for the playing track after the transport closed:
\* nothing was sent, the reconnect timer is pending
C29_Witness ==
    /\ hostUI /\ page = "audio"
    /\ ev.kind = "ui" /\ ev.tag = "play_pause"
    /\ Playing /\ state.track_url = "a"
    /\ ws = 0 /\ sockets[1].readyState = "closed" /\ sockets[1].opened
    /\ timers # {}
    /\ sent = <<>>

----------------------------------------------------------------------------
\* Observations of the connection layer of host.js and the listener client

\* the delay of the timeout the step sets
NewTimerDelays == {t.due - now : t \in timers' \ timers}

\* C31: in host.js and the listener client the first close after a transport
\* opened schedules the reconnect after the floor, 2000 ms; later closes without an
\* open in between never shorten the delay and never exceed the cap, 8000 ms; an
\* open returns the delay to the floor.
C31_BackoffFromFloor ==
    [][(page = "host" \/ page = "listener") =>
          /\ ev'.kind = "open" => clientState'.reconnectDelay = RECONNECT_DELAY_START
          /\ ev'.kind = "close" =>
                /\ clientState'.reconnectDelay >= clientState.reconnectDelay
                /\ clientState'.reconnectDelay <= RECONNECT_DELAY_CAP
          /\ (ev'.kind = "close" /\ sockets[ClosingSocket].opened) =>
                \A d \in NewTimerDelays : d = RECONNECT_DELAY_START]_vars

----------------------------------------------------------------------------
\* a snapshot was applied in the step
SnapshotApplied == ev'.kind \in {"init", "state"} /\ lastMsgState' # Undefined

\* C32: applying a snapshot leaves the clock estimate (offset, calibrated) and the
\* last applied rate as they were, so the next rate written to the player continues
\* from the rate applied before the snapshot.
C32_SnapshotLeavesRateAndClock ==
    [][SnapshotApplied =>
          /\ clockOffsetMs' = clockOffsetMs
          /\ clockCalibrated' = clockCalibrated
          /\ lastAppliedRate' = lastAppliedRate]_vars

----------------------------------------------------------------------------
\* the snapshot applied in the step names the track the previous snapshot named,
\* and that track is the one loaded
SameTrackAgain ==
    /\ SnapshotApplied
    /\ state # Undefined
    /\ lastMsgState'.track_url = state.track_url
    /\ audio.src = ResolveSrc(state.track_url)

LoadCalls(cs) == {i \in 1..Len(cs) : cs[i].op = "loadSource"}

\* C34: a snapshot naming the track that is already loaded issues no load and leaves
\* the source as it is; unless the handler seeks, the position stays where it was.
C34_SameTrackNoReload ==
    [][SameTrackAgain =>
          /\ LoadCalls(calls') = {}
          /\ audio'.src = audio.src
          /\ SeekCalls(calls') = {} => audio'.currentTime = audio.currentTime]_vars

----------------------------------------------------------------------------
\* the drift is within the dead band
WithinDeadBand == Playing /\ inDeadBand(Drift)

\* C36: from any drift with 25 ms < |drift| <= 1500 ms, while playing, calibrated and
\* not buffering at base rate 1.0, the control loop eventually brings the drift
\* within 25 ms, and no control tick on the way issues a seek, whether or not
\* periodic snapshots arrive in between.
C36_ConvergesWithoutSeek ==
    /\ (InPiBand /\ basePlaybackRate = RATE_ONE) ~> WithinDeadBand
    /\ [][ev'.kind = "tick" => SeekCalls(calls') = {}]_vars

----------------------------------------------------------------------------
\* the server has sent a state object to this embedded-player client
ServerSnapshotReceived == lastMsgState \in VideoSnapshots

LoadOrCueCalls(cs) == {i \in 1..Len(cs) : cs[i].op \in {"loadVideoById", "cueVideoById"}}

\* the call that puts the player on the state st
ExpectedCall(st) ==
    PlayerCall(IF st.is_playing THEN "loadVideoById" ELSE "cueVideoById",
               st.video_id, st.position)

\* C33: in host.js and the listener client, as long as the player is not ready the
\* state object the server sent last is the pending one, whatever the page did since,
\* and no call is made on the player; the handler of onReady then clears pendingState
\* and puts the player on that state object with exactly one load or cue call
C33_PendingSnapshotAppliedOnReady ==
    [][(page = "host" \/ page = "listener") =>
          /\ (~clientState'.playerReady /\ lastMsgState' \in VideoSnapshots) =>
                 /\ clientState'.pendingState = lastMsgState'
                 /\ calls' = <<>>
          /\ (ev'.kind = "ready" /\ ServerSnapshotReceived) =>
                 /\ clientState'.pendingState = NullState
                 /\ \E i \in 1..Len(calls') :
                        /\ LoadOrCueCalls(calls') = {i}
                        /\ calls'[i] = ExpectedCall(lastMsgState)]_vars

----------------------------------------------------------------------------
\* C35: in host.js and the listener client at most one latency ping timer, one
\* metrics timer and one progress timer is running at any time, and the latency ping
\* timer of host.js runs only while a transport is open
C35_OneTimerOfEachKind ==
    (page = "host" \/ page = "listener") =>
        /\ clientState.intervals.ping <= 1
        /\ clientState.intervals.metrics <= 1
        /\ clientState.intervals.progress <= 1
        /\ (page = "host" /\ clientState.intervals.ping > 0) =>
               \E i \in DOMAIN sockets : sockets[i].readyState = "open"

\* the listener client on its second transport, the player ready, having just handled
\* another hello: scheduleIntervals has run at least twice
C35_Witness ==
    /\ page = "listener"
    /\ Len(sockets) = 2
    /\ clientState.playerReady
    /\ ev.kind = "hello"
    /\ clientState.intervals.metrics = 1
    /\ clientState.intervals.progress = 1

====
